---- MODULE Spec2Model ----
(***************************************************************************)
(* A model of extapi_core.ExtApi: the index builder, the lookup accessors  *)
(* and the free-text query router.                                         *)
(*                                                                         *)
(* Python values are represented as follows.                               *)
(*   str        a sequence of one-character strings                        *)
(*   int        an integer                                                 *)
(*   list       a sequence                                                 *)
(*   JSON object  a record holding exactly the keys that are present       *)
(*   Optional   <<>> for None, <<v>> for a value v                         *)
(*   dict built by the code   a sequence of [k, v] entries in insertion    *)
(*              order (Python dicts iterate in insertion order)            *)
(*   a JSON scalar that may be a number or a string   [int |-> n] or       *)
(*              [str |-> s]; a JSON list of such scalars [list |-> <<>>]   *)
(***************************************************************************)
EXTENDS Integers, Sequences, FiniteSets, TLC

VARIABLES api, ix, call, env, disk, _mtime, handlers

vars == <<api, ix, call, env, disk, _mtime, handlers>>

\* the transport's variables: the process configuration, the document file,
\* the recorded modification time and the request handler threads
srv == <<env, disk, _mtime, handlers>>

(***************************************************************************)
(* Characters and the str methods the code uses.                           *)
(***************************************************************************)
LowerChars ==
  <<"a","b","c","d","e","f","g","h","i","j","k","l","m","n","o","p","q",
    "r","s","t","u","v","w","x","y","z","é">>

UpperChars ==
  <<"A","B","C","D","E","F","G","H","I","J","K","L","M","N","O","P","Q",
    "R","S","T","U","V","W","X","Y","Z","É">>

DigitChars == <<"0","1","2","3","4","5","6","7","8","9">>

Range(s) == {s[i] : i \in DOMAIN s}

\* [A-Za-z]: the ASCII letters (the accented letter is not one of them)
AsciiLetter == (Range(LowerChars) \cup Range(UpperChars)) \ {"é", "É"}

\* \d
Digit == Range(DigitChars)

\* [A-Za-z0-9_]
AsciiWord == AsciiLetter \cup Digit \cup {"_"}

\* [A-Za-z_]
AsciiLetterUnderscore == AsciiLetter \cup {"_"}

\* \w of a str pattern: Unicode letters and digits and the underscore
WordChar == Range(LowerChars) \cup Range(UpperChars) \cup Digit \cup {"_"}

\* \s
Space == {" "}

\* str.lower() on one character
LowerOf ==
  [c \in Range(UpperChars) |->
     LowerChars[CHOOSE i \in DOMAIN UpperChars : UpperChars[i] = c]]

LowerChar(c) == IF c \in DOMAIN LowerOf THEN LowerOf[c] ELSE c

\* str.lower()
lower(s) == [i \in DOMAIN s |-> LowerChar(s[i])]

\* sub in s
Contains(s, sub) ==
  \E i \in 1..(Len(s) - Len(sub) + 1) : SubSeq(s, i, i + Len(sub) - 1) = sub

\* s.startswith(p)
StartsWith(s, p) == Len(p) <= Len(s) /\ SubSeq(s, 1, Len(p)) = p

\* str(n) for an int
RECURSIVE NatToStr(_)
NatToStr(n) ==
  IF n < 10 THEN <<DigitChars[n + 1]>>
  ELSE NatToStr(n \div 10) \o <<DigitChars[(n % 10) + 1]>>

IntToStr(n) == IF n < 0 THEN <<"-">> \o NatToStr(0 - n) ELSE NatToStr(n)

\* str(v) for a JSON scalar that is a number or a string
py_str(v) == IF "int" \in DOMAIN v THEN IntToStr(v.int) ELSE v.str

Min(S) == CHOOSE x \in S : \A y \in S : x <= y

(***************************************************************************)
(* Pieces of the regular expressions of the router.  A position i of s is  *)
(* the gap before s[i]; Len(s)+1 is the end of the string.                 *)
(***************************************************************************)
\* \b at position i
Boundary(s, i) ==
  LET before == i > 1 /\ s[i - 1] \in WordChar
      after == i <= Len(s) /\ s[i] \in WordChar
  IN before # after

\* the position after the longest run of characters of Cls that starts at i
\* (what a greedy Cls* consumes)
RunEnd(s, i, Cls) ==
  CHOOSE j \in i..(Len(s) + 1) :
    /\ \A k \in i..(j - 1) : s[k] \in Cls
    /\ (j = Len(s) + 1 \/ s[j] \notin Cls)

\* the literal lit at position i, under re.IGNORECASE
LiteralAtNoCase(s, i, lit) ==
  /\ i + Len(lit) - 1 <= Len(s)
  /\ lower(SubSeq(s, i, i + Len(lit) - 1)) = lower(lit)

\* the literal lit at position i
LiteralAt(s, i, lit) ==
  /\ i + Len(lit) - 1 <= Len(s)
  /\ SubSeq(s, i, i + Len(lit) - 1) = lit

\* [A-Za-z][A-Za-z0-9_]* at position i: the end of the identifier, or 0
IdentEnd(s, i) ==
  IF i <= Len(s) /\ s[i] \in AsciiLetter THEN RunEnd(s, i + 1, AsciiWord) ELSE 0

(***************************************************************************)
(* The patterns of route and _extract_known.  Each XAt(s, i) is the match  *)
(* of pattern X that starts at position i: <<>> when there is none, else   *)
(* <<groups>>.  re.search returns the match with the leftmost start.       *)
(***************************************************************************)
\* rf"\b{re.escape(nm)}\b" with re.IGNORECASE, at position i
KnownAt(q, i, nm) ==
  /\ Boundary(q, i)
  /\ LiteralAtNoCase(q, i, nm)
  /\ Boundary(q, i + Len(nm))

SearchKnown(q, nm) == \E i \in 1..(Len(q) + 1) : KnownAt(q, i, nm)

\* r"\b([A-Za-z][A-Za-z0-9_]*)\s*\.\s*([a-zA-Z_]\w*)\b"
M3At(q, i) ==
  LET e1 == IdentEnd(q, i)
      d == RunEnd(q, e1, Space)
      s2 == RunEnd(q, d + 1, Space)
      e2 == RunEnd(q, s2 + 1, WordChar)
  IN IF ~Boundary(q, i) \/ e1 = 0 THEN <<>>
     ELSE IF ~(d <= Len(q) /\ q[d] = ".") THEN <<>>
     ELSE IF ~(s2 <= Len(q) /\ q[s2] \in AsciiLetterUnderscore) THEN <<>>
     ELSE <<[g1 |-> SubSeq(q, i, e1 - 1), g2 |-> SubSeq(q, s2, e2 - 1)]>>

SearchM3(q) ==
  LET I == {i \in 1..Len(q) : M3At(q, i) # <<>>}
  IN IF I = {} THEN <<>> ELSE M3At(q, Min(I))

\* r"hash\s*[:=]?\s*(\d+)"
HashAt(ql, i) ==
  LET a == RunEnd(ql, i + 4, Space)
      b == IF a <= Len(ql) /\ ql[a] \in {":", "="} THEN a + 1 ELSE a
      c == RunEnd(ql, b, Space)
      e == RunEnd(ql, c, Digit)
  IN IF ~LiteralAt(ql, i, <<"h","a","s","h">>) THEN <<>>
     ELSE IF e = c THEN <<>>
     ELSE <<SubSeq(ql, c, e - 1)>>

SearchHash(ql) ==
  LET I == {i \in 1..Len(ql) : HashAt(ql, i) # <<>>}
  IN IF I = {} THEN <<>> ELSE HashAt(ql, Min(I))

\* \s+([A-Za-z][A-Za-z0-9_]*)\b at position a: the tail of two patterns
SpacesIdentAt(q, a) ==
  LET s == RunEnd(q, a, Space)
      e == IdentEnd(q, s)
  IN IF s = a \/ e = 0 THEN <<>>
     ELSE IF ~Boundary(q, e) THEN <<>>
     ELSE <<SubSeq(q, s, e - 1)>>

\* r"\bbuiltin\s+([A-Za-z][A-Za-z0-9_]*)\b" with re.IGNORECASE
M4aAt(q, i) ==
  IF Boundary(q, i) /\ LiteralAtNoCase(q, i, <<"b","u","i","l","t","i","n">>)
  THEN SpacesIdentAt(q, i + 7)
  ELSE <<>>

SearchM4a(q) ==
  LET I == {i \in 1..Len(q) : M4aAt(q, i) # <<>>}
  IN IF I = {} THEN <<>> ELSE M4aAt(q, Min(I))

\* r"\b([A-Za-z][A-Za-z0-9_]*)\s+builtin\b" with re.IGNORECASE
M4bAt(q, i) ==
  LET e1 == IdentEnd(q, i)
      s == RunEnd(q, e1, Space)
  IN IF ~Boundary(q, i) \/ e1 = 0 THEN <<>>
     ELSE IF s = e1 THEN <<>>
     ELSE IF ~LiteralAtNoCase(q, s, <<"b","u","i","l","t","i","n">>) THEN <<>>
     ELSE IF ~Boundary(q, s + 7) THEN <<>>
     ELSE <<SubSeq(q, i, e1 - 1)>>

SearchM4b(q) ==
  LET I == {i \in 1..Len(q) : M4bAt(q, i) # <<>>}
  IN IF I = {} THEN <<>> ELSE M4bAt(q, Min(I))

\* r"\b([A-Za-z][A-Za-z0-9_]*)\.([A-Za-z][A-Za-z0-9_]*)\b"
M2At(q, i) ==
  LET e1 == IdentEnd(q, i)
      e2 == IdentEnd(q, e1 + 1)
  IN IF ~Boundary(q, i) \/ e1 = 0 THEN <<>>
     ELSE IF ~(e1 <= Len(q) /\ q[e1] = ".") THEN <<>>
     ELSE IF e2 = 0 THEN <<>>
     ELSE IF ~Boundary(q, e2) THEN <<>>
     ELSE <<[g1 |-> SubSeq(q, i, e1 - 1), g2 |-> SubSeq(q, e1 + 1, e2 - 1)]>>

SearchM2(q) ==
  LET I == {i \in 1..Len(q) : M2At(q, i) # <<>>}
  IN IF I = {} THEN <<>> ELSE M2At(q, Min(I))

\* r"\b(?:classe|class)\s+([A-Za-z][A-Za-z0-9_]*)\b" with re.IGNORECASE:
\* the alternative "classe" is tried first
M5At(q, i) ==
  LET long == IF LiteralAtNoCase(q, i, <<"c","l","a","s","s","e">>)
              THEN SpacesIdentAt(q, i + 6) ELSE <<>>
      short == IF LiteralAtNoCase(q, i, <<"c","l","a","s","s">>)
               THEN SpacesIdentAt(q, i + 5) ELSE <<>>
  IN IF ~Boundary(q, i) THEN <<>>
     ELSE IF long # <<>> THEN long
     ELSE short

SearchM5(q) ==
  LET I == {i \in 1..Len(q) : M5At(q, i) # <<>>}
  IN IF I = {} THEN <<>> ELSE M5At(q, Min(I))

\* r"\b([A-Za-z_]\w*)\b"
M6At(q, i) ==
  IF Boundary(q, i) /\ q[i] \in AsciiLetterUnderscore
  THEN <<SubSeq(q, i, RunEnd(q, i + 1, WordChar) - 1)>>
  ELSE <<>>

SearchM6(q) ==
  LET I == {i \in 1..Len(q) : M6At(q, i) # <<>>}
  IN IF I = {} THEN <<>> ELSE M6At(q, Min(I))

(***************************************************************************)
(* dict and JSON-object helpers.                                           *)
(***************************************************************************)
None == <<>>

Some(v) == <<v>>

\* o.get(f) on a JSON object
Get(o, f) == IF f \in DOMAIN o THEN <<o[f]>> ELSE <<>>

\* o.get(f, []) or [] on a JSON object
GetList(o, f) == IF f \in DOMAIN o THEN o[f] ELSE <<>>

\* o.get(f) or False
GetFlag(o, f) == IF f \in DOMAIN o THEN o[f] ELSE FALSE

\* bool(x) of an Optional str: None and "" are falsy
TruthyStr(x) == x # <<>> /\ x[1] # <<>>

\* d.get(k)
DictGet(d, k) ==
  LET I == {i \in DOMAIN d : d[i].k = k}
  IN IF I = {} THEN <<>> ELSE <<d[CHOOSE i \in I : TRUE].v>>

\* k in d
DictHas(d, k) == \E i \in DOMAIN d : d[i].k = k

\* d[k] = v: a key that exists keeps its place
DictSet(d, k, v) ==
  IF DictHas(d, k)
  THEN [i \in DOMAIN d |-> IF d[i].k = k THEN [k |-> k, v |-> v] ELSE d[i]]
  ELSE Append(d, [k |-> k, v |-> v])

\* d.setdefault(k, []).append(x)
DictAppend(d, k, x) ==
  IF DictHas(d, k)
  THEN [i \in DOMAIN d |->
          IF d[i].k = k THEN [k |-> k, v |-> Append(d[i].v, x)] ELSE d[i]]
  ELSE Append(d, [k |-> k, v |-> <<x>>])

\* list(d.keys())
DictKeys(d) == [i \in DOMAIN d |-> d[i].k]

(***************************************************************************)
(* Words the code spells out.                                              *)
(***************************************************************************)
S_unknown == <<"u","n","k","n","o","w","n">>

S_float_32 == <<"f","l","o","a","t","_","3","2">>

S_layout == <<"l","a","y","o","u","t">>

S_tamanho == <<"t","a","m","a","n","h","o">>

S_size == <<"s","i","z","e">>

S_offset == <<"o","f","f","s","e","t">>

S_builtin == <<"b","u","i","l","t","i","n">>

S_classe == <<"c","l","a","s","s","e">>

S_class == <<"c","l","a","s","s">>

S_metodo_acento == <<"m","é","t","o","d","o">>

S_metodo == <<"m","e","t","o","d","o">>

S_method == <<"m","e","t","h","o","d">>

(***************************************************************************)
(* ExtApi._build_indexes                                                   *)
(***************************************************************************)
\* header.get("version_full_name") or version.string or version.full_name
\* or "unknown"
BuildVersion(a) ==
  LET header == IF "header" \in DOMAIN a THEN a.header ELSE <<>>
      ver == IF "version" \in DOMAIN a THEN a.version ELSE <<>>
  IN IF TruthyStr(Get(header, "version_full_name")) THEN header.version_full_name
     ELSE IF TruthyStr(Get(ver, "string")) THEN ver.string
     ELSE IF TruthyStr(Get(ver, "full_name")) THEN ver.full_name
     ELSE S_unknown

\* for hcv in hv_compat: methods_by_hash.setdefault(str(hcv), []).append(..)
RECURSIVE AddCompat(_, _, _, _)
AddCompat(mbh, hs, i, entry) ==
  IF i > Len(hs) THEN mbh
  ELSE AddCompat(DictAppend(mbh, py_str(hs[i]), entry), hs, i + 1, entry)

\* the loop body without the hash_compatibility branches
IndexMethod_PrimaryOnly(acc, name, m) ==
  LET entry == [cls |-> name, m |-> m]
      byHash1 == IF "hash" \in DOMAIN m
                 THEN DictAppend(acc.methods_by_hash, py_str(m.hash), entry)
                 ELSE acc.methods_by_hash
  IN IF ~TruthyStr(Get(m, "name")) THEN acc
     ELSE [methods_by_name |-> DictAppend(acc.methods_by_name, m.name, entry),
           methods_by_hash |-> byHash1]

\* the body of the loop over the methods of class `name`; acc holds
\* methods_by_name and methods_by_hash
IndexMethod(acc, name, m) ==
  LET entry == [cls |-> name, m |-> m]
      byHash1 == IF "hash" \in DOMAIN m
                 THEN DictAppend(acc.methods_by_hash, py_str(m.hash), entry)
                 ELSE acc.methods_by_hash
      byHash2 == IF "hash_compatibility" \notin DOMAIN m THEN byHash1
                 ELSE IF "list" \in DOMAIN m.hash_compatibility
                 THEN AddCompat(byHash1, m.hash_compatibility.list, 1, entry)
                 ELSE DictAppend(byHash1, py_str(m.hash_compatibility), entry)
  IN IF ~TruthyStr(Get(m, "name")) THEN acc
     ELSE [methods_by_name |-> DictAppend(acc.methods_by_name, m.name, entry),
           methods_by_hash |-> byHash2]

RECURSIVE IndexMethods(_, _, _, _)
IndexMethods(acc, name, ms, i) ==
  IF i > Len(ms) THEN acc
  ELSE IndexMethods(IndexMethod(acc, name, ms[i]), name, ms, i + 1)

\* for e in c.get("enums"): class_enums_qualname[f"{name}.{en}"] = e
RECURSIVE IndexClassEnums(_, _, _, _)
IndexClassEnums(ceq, name, es, i) ==
  IF i > Len(es) THEN ceq
  ELSE IndexClassEnums(
         IF TruthyStr(Get(es[i], "name"))
         THEN DictSet(ceq, name \o <<".">> \o es[i].name, es[i])
         ELSE ceq,
         name, es, i + 1)

\* the loop over api["classes"]
RECURSIVE IndexClasses(_, _, _)
IndexClasses(acc, cs, i) ==
  IF i > Len(cs) THEN acc
  ELSE LET c == cs[i]
           ms == IndexMethods([methods_by_name |-> acc.methods_by_name,
                               methods_by_hash |-> acc.methods_by_hash],
                              c.name, GetList(c, "methods"), 1)
       IN IF ~TruthyStr(Get(c, "name")) THEN IndexClasses(acc, cs, i + 1)
          ELSE IndexClasses(
                 [classes_by_name |-> DictSet(acc.classes_by_name, c.name, c),
                  methods_by_name |-> ms.methods_by_name,
                  methods_by_hash |-> ms.methods_by_hash,
                  class_enums_qualname |->
                    IndexClassEnums(acc.class_enums_qualname, c.name,
                                    GetList(c, "enums"), 1)],
                 cs, i + 1)

\* the loops that key a list of records by their truthy "name"
RECURSIVE IndexByName(_, _, _)
IndexByName(d, rs, i) ==
  IF i > Len(rs) THEN d
  ELSE IndexByName(IF TruthyStr(Get(rs[i], "name"))
                   THEN DictSet(d, rs[i].name, rs[i]) ELSE d,
                   rs, i + 1)

\* singletons_by_name[nm] = tp when both are truthy
RECURSIVE IndexSingletons(_, _, _)
IndexSingletons(d, rs, i) ==
  IF i > Len(rs) THEN d
  ELSE IndexSingletons(
         IF TruthyStr(Get(rs[i], "name")) /\ TruthyStr(Get(rs[i], "type"))
         THEN DictSet(d, rs[i].name, rs[i].type) ELSE d,
         rs, i + 1)

\* utility_by_cat.setdefault(u.get("category") or "", []).append(nm)
RECURSIVE IndexUtilityCat(_, _, _)
IndexUtilityCat(d, rs, i) ==
  IF i > Len(rs) THEN d
  ELSE IndexUtilityCat(
         IF TruthyStr(Get(rs[i], "name"))
         THEN DictAppend(d, IF "category" \in DOMAIN rs[i]
                            THEN rs[i].category ELSE <<>>, rs[i].name)
         ELSE d,
         rs, i + 1)

\* sizes_map[bname] = size when neither is None
RECURSIVE SizesMap(_, _, _)
SizesMap(d, items, i) ==
  IF i > Len(items) THEN d
  ELSE SizesMap(IF "name" \in DOMAIN items[i] /\ "size" \in DOMAIN items[i]
                THEN DictSet(d, items[i].name, items[i].size) ELSE d,
                items, i + 1)

\* builtin_sizes[conf_name] = sizes_map when conf_name is truthy
RECURSIVE IndexSizes(_, _, _)
IndexSizes(d, confs, i) ==
  IF i > Len(confs) THEN d
  ELSE IndexSizes(
         IF TruthyStr(Get(confs[i], "build_configuration"))
         THEN DictSet(d, confs[i].build_configuration,
                      SizesMap(<<>>, GetList(confs[i], "sizes"), 1))
         ELSE d,
         confs, i + 1)

\* cmap[bname] = members when bname is truthy
RECURSIVE OffsetsMap(_, _, _)
OffsetsMap(d, cs, i) ==
  IF i > Len(cs) THEN d
  ELSE OffsetsMap(IF TruthyStr(Get(cs[i], "name"))
                  THEN DictSet(d, cs[i].name, GetList(cs[i], "members"))
                  ELSE d,
                  cs, i + 1)

\* builtin_offsets[conf_name] = cmap when conf_name is truthy
RECURSIVE IndexOffsets(_, _, _)
IndexOffsets(d, confs, i) ==
  IF i > Len(confs) THEN d
  ELSE IndexOffsets(
         IF TruthyStr(Get(confs[i], "build_configuration"))
         THEN DictSet(d, confs[i].build_configuration,
                      OffsetsMap(<<>>, GetList(confs[i], "classes"), 1))
         ELSE d,
         confs, i + 1)

_build_indexes(a) ==
  LET cls == IndexClasses([classes_by_name |-> <<>>, methods_by_name |-> <<>>,
                           methods_by_hash |-> <<>>,
                           class_enums_qualname |-> <<>>],
                          GetList(a, "classes"), 1)
  IN [version |-> BuildVersion(a),
      classes_by_name |-> cls.classes_by_name,
      methods_by_name |-> cls.methods_by_name,
      methods_by_hash |-> cls.methods_by_hash,
      global_enums_by_name |-> IndexByName(<<>>, GetList(a, "global_enums"), 1),
      class_enums_qualname |-> cls.class_enums_qualname,
      singletons_by_name |-> IndexSingletons(<<>>, GetList(a, "singletons"), 1),
      builtin_sizes |-> IndexSizes(<<>>, GetList(a, "builtin_class_sizes"), 1),
      builtin_offsets |->
        IndexOffsets(<<>>, GetList(a, "builtin_class_member_offsets"), 1),
      utility_by_name |->
        IndexByName(<<>>, GetList(a, "utility_functions"), 1),
      utility_by_cat |->
        IndexUtilityCat(<<>>, GetList(a, "utility_functions"), 1),
      native_structs_by_name |->
        IndexByName(<<>>, GetList(a, "native_structures"), 1),
      builtin_classes_by_name |->
        IndexByName(<<>>, GetList(a, "builtin_classes"), 1),
      global_constants_by_name |->
        IndexByName(<<>>, GetList(a, "global_constants"), 1)]

(***************************************************************************)
(* Formatter                                                               *)
(***************************************************************************)
S_void == <<"v","o","i","d">>

S_unnamed == <<"<","u","n","n","a","m","e","d",">">>

S_typedarray == <<"t","y","p","e","d","a","r","r","a","y",":",":">>

S_enum == <<"e","n","u","m",":",":">>

\* sep.join(parts)
RECURSIVE Join(_, _)
Join(parts, sep) ==
  IF parts = <<>> THEN <<>>
  ELSE IF Len(parts) = 1 THEN parts[1]
  ELSE parts[1] \o sep \o Join(Tail(parts), sep)

\* s.strip()
Strip(s) ==
  LET I == {i \in DOMAIN s : s[i] \notin Space}
  IN IF I = {} THEN <<>>
     ELSE SubSeq(s, Min(I), CHOOSE j \in I : \A k \in I : k <= j)

\* t is an Optional type name
_fmt_type(t) ==
  IF ~TruthyStr(t) THEN S_void
  ELSE IF StartsWith(t[1], S_typedarray)
  THEN <<"A","r","r","a","y","<">>
       \o SubSeq(t[1], Len(S_typedarray) + 1, Len(t[1])) \o <<">">>
  ELSE IF StartsWith(t[1], S_enum)
  THEN SubSeq(t[1], Len(S_enum) + 1, Len(t[1]))
  ELSE t[1]

_fmt_arg(arg) ==
  LET t == _fmt_type(Get(arg, "type"))
      name == IF "name" \in DOMAIN arg THEN arg.name ELSE <<>>
  IN IF "default_value" \in DOMAIN arg
     THEN t \o <<" ">> \o name \o <<"=">> \o arg.default_value
     ELSE IF name # <<>> THEN t \o <<" ">> \o name ELSE t

\* cls is an Optional class name
_fmt_method_sig(m, cls) ==
  LET ret == _fmt_type(Get(IF "return_value" \in DOMAIN m
                           THEN m.return_value ELSE <<>>, "type"))
      as == GetList(m, "arguments")
      args == Join([i \in DOMAIN as |-> _fmt_arg(as[i])], <<",", " ">>)
      name == IF "name" \in DOMAIN m THEN m.name ELSE S_unnamed
      qual == IF TruthyStr(cls) THEN cls[1] \o <<":", ":">> \o name ELSE name
      flags == (IF GetFlag(m, "is_static")
                THEN << <<"s","t","a","t","i","c">> >> ELSE <<>>)
               \o (IF GetFlag(m, "is_const")
                   THEN << <<"c","o","n","s","t">> >> ELSE <<>>)
               \o (IF GetFlag(m, "is_virtual")
                   THEN << <<"v","i","r","t","u","a","l">> >> ELSE <<>>)
               \o (IF GetFlag(m, "is_vararg")
                   THEN << <<"v","a","r","a","r","g">> >> ELSE <<>>)
      flags_s == IF flags # <<>>
                 THEN <<" ", "[">> \o Join(flags, <<",", " ">>) \o <<"]">>
                 ELSE <<>>
  IN ret \o <<" ">> \o qual \o <<"(">> \o args \o <<")">> \o flags_s

_fmt_property(p) ==
  LET t == _fmt_type(Get(p, "type"))
      name == IF "name" \in DOMAIN p THEN p.name ELSE S_unnamed
      extra == (IF TruthyStr(Get(p, "getter"))
                THEN << <<"g","e","t","=">> \o p.getter >> ELSE <<>>)
               \o (IF TruthyStr(Get(p, "setter"))
                   THEN << <<"s","e","t","=">> \o p.setter >> ELSE <<>>)
               \o (IF "index" \in DOMAIN p
                   THEN << <<"i","n","d","e","x","=">> \o IntToStr(p.index) >>
                   ELSE <<>>)
  IN t \o <<" ">> \o name
     \o (IF extra # <<>>
         THEN <<" ", "[">> \o Join(extra, <<",", " ">>) \o <<"]">>
         ELSE <<>>)

_fmt_signal(sg) ==
  LET name == IF "name" \in DOMAIN sg THEN sg.name ELSE S_unnamed
      as == GetList(sg, "arguments")
      atype(a) == IF TruthyStr(Get(a, "type")) THEN a.type ELSE S_void
      args_s == Join([i \in DOMAIN as |->
                        Strip(atype(as[i]) \o <<" ">>
                              \o (IF "name" \in DOMAIN as[i]
                                  THEN as[i].name ELSE <<>>))],
                     <<",", " ">>)
  IN <<"s","i","g","n","a","l"," ">> \o name \o <<"(">> \o args_s \o <<")">>

_sig_dict(cls, m) ==
  LET as == GetList(m, "arguments")
  IN [class |-> cls,
      name |-> Get(m, "name"),
      ret |-> Get(IF "return_value" \in DOMAIN m THEN m.return_value ELSE <<>>,
                  "type"),
      args |-> [i \in DOMAIN as |-> Get(as[i], "type")],
      hash |-> Get(m, "hash"),
      hash_compatibility |-> Get(m, "hash_compatibility"),
      is_static |-> GetFlag(m, "is_static"),
      is_const |-> GetFlag(m, "is_const"),
      is_virtual |-> GetFlag(m, "is_virtual"),
      is_vararg |-> GetFlag(m, "is_vararg")]

(***************************************************************************)
(* Lookup accessors.  x is the Indexes value self.ix.                      *)
(***************************************************************************)
\* the first key of d that equals name ignoring case (the fallback loops)
FirstKeyNoCase(d, name) ==
  LET I == {i \in DOMAIN d : lower(d[i].k) = lower(name)}
  IN IF I = {} THEN None ELSE Some(d[Min(I)].k)

\* [v.get("name") for v in e.get("values", []) or []]
ValueNames(e) ==
  LET vs == GetList(e, "values") IN [i \in DOMAIN vs |-> Get(vs[i], "name")]

get_class(x, name) ==
  LET c == DictGet(x.classes_by_name, name)
      k == FirstKeyNoCase(x.classes_by_name, name)
  IN IF c # None THEN c
     ELSE IF k # None THEN DictGet(x.classes_by_name, k[1])
     ELSE None

list_class_items(x, name) ==
  LET c == get_class(x, name)
      r == c[1]
      ms == GetList(r, "methods")
      ps == GetList(r, "properties")
      ss == GetList(r, "signals")
      ks == GetList(r, "constants")
      es == GetList(r, "enums")
  IN IF c = None THEN None
     ELSE Some([name |-> Get(r, "name"),
                api_type |-> Get(r, "api_type"),
                inherits |-> Get(r, "inherits"),
                is_instantiable |-> Get(r, "is_instantiable"),
                is_refcounted |-> Get(r, "is_refcounted"),
                methods |->
                  [i \in DOMAIN ms |-> _fmt_method_sig(ms[i], Get(r, "name"))],
                properties |-> [i \in DOMAIN ps |-> _fmt_property(ps[i])],
                signals |-> [i \in DOMAIN ss |-> _fmt_signal(ss[i])],
                constants |->
                  [i \in DOMAIN ks |->
                     [name |-> Get(ks[i], "name"), value |-> Get(ks[i], "value")]],
                enums |->
                  [i \in DOMAIN es |->
                     [name |-> Get(es[i], "name"), values |-> ValueNames(es[i])]]])

\* cls is an Optional class filter
find_methods(x, name, cls) ==
  LET es == DictGet(x.methods_by_name, name)
      Keep(e) == ~(TruthyStr(cls) /\ lower(e.cls) # lower(cls[1]))
      kept == IF es = None THEN <<>> ELSE SelectSeq(es[1], Keep)
  IN [i \in DOMAIN kept |-> _sig_dict(kept[i].cls, kept[i].m)]

\* h is an int or a str
find_method_by_hash(x, h) ==
  LET es == DictGet(x.methods_by_hash, py_str(h))
      found == IF es = None THEN <<>> ELSE es[1]
  IN [i \in DOMAIN found |-> _sig_dict(found[i].cls, found[i].m)]

get_global_enum(x, name) ==
  LET e == DictGet(x.global_enums_by_name, name)
      k == FirstKeyNoCase(x.global_enums_by_name, name)
  IN IF e # None THEN Some([name |-> name, values |-> ValueNames(e[1])])
     ELSE IF k # None
     THEN Some([name |-> k[1],
                values |-> ValueNames(DictGet(x.global_enums_by_name, k[1])[1])])
     ELSE None

\* qualified.split(".")
RECURSIVE Split(_, _)
Split(s, sep) ==
  LET I == {i \in DOMAIN s : s[i] = sep}
  IN IF I = {} THEN <<s>>
     ELSE <<SubSeq(s, 1, Min(I) - 1)>>
          \o Split(SubSeq(s, Min(I) + 1, Len(s)), sep)

get_class_enum(x, qualified) ==
  LET e == DictGet(x.class_enums_qualname, qualified)
      parts == Split(qualified, ".")
      cname_real == FirstKeyNoCase(x.classes_by_name, parts[1])
      key == cname_real[1] \o <<".">> \o parts[2]
      e2 == DictGet(x.class_enums_qualname, key)
  IN IF e # None
     THEN Some([name |-> qualified, values |-> ValueNames(e[1])])
     ELSE IF Len(parts) = 2 /\ TruthyStr(cname_real) /\ e2 # None
     THEN Some([name |-> key, values |-> ValueNames(e2[1])])
     ELSE None

_resolve_builtin_name(x, name) ==
  LET b == DictGet(x.builtin_classes_by_name, name)
      k == FirstKeyNoCase(x.builtin_classes_by_name, name)
  IN IF b # None THEN b
     ELSE IF k # None THEN DictGet(x.builtin_classes_by_name, k[1])
     ELSE None

_resolve_builtin_key(x, name) ==
  IF DictHas(x.builtin_classes_by_name, name) THEN Some(name)
  ELSE FirstKeyNoCase(x.builtin_classes_by_name, name)

get_builtin(x, name) ==
  LET r == _resolve_builtin_name(x, name)
      b == r[1]
      mem == GetList(b, "members")
      con == GetList(b, "constants")
      cto == GetList(b, "constructors")
      ops == GetList(b, "operators")
      mts == GetList(b, "methods")
      ArgTypes(o) ==
        LET as == GetList(o, "arguments")
        IN [i \in DOMAIN as |-> Get(as[i], "type")]
  IN IF r = None THEN None
     ELSE Some(
       [name |-> Get(b, "name"),
        is_keyed |-> Get(b, "is_keyed"),
        has_destructor |-> Get(b, "has_destructor")]
       @@ (IF "indexing_return_type" \in DOMAIN b
           THEN [indexing_return_type |-> b.indexing_return_type] ELSE <<>>)
       @@ (IF mem # <<>>
           THEN [members |->
                   [i \in DOMAIN mem |->
                      [name |-> Get(mem[i], "name"), type |-> Get(mem[i], "type")]]]
           ELSE <<>>)
       @@ (IF con # <<>>
           THEN [constants |->
                   [i \in DOMAIN con |->
                      [name |-> Get(con[i], "name"),
                       value |-> Get(con[i], "value")]]]
           ELSE <<>>)
       @@ (IF cto # <<>>
           THEN [constructors |->
                   [i \in DOMAIN cto |->
                      [index |-> Get(cto[i], "index"), args |-> ArgTypes(cto[i])]]]
           ELSE <<>>)
       @@ (IF ops # <<>>
           THEN [operators |->
                   [i \in DOMAIN ops |->
                      [name |-> Get(ops[i], "name"),
                       right_type |-> Get(ops[i], "right_type"),
                       return_type |-> Get(ops[i], "return_type")]]]
           ELSE <<>>)
       @@ (IF mts # <<>>
           THEN [methods |->
                   [i \in DOMAIN mts |->
                      [name |-> Get(mts[i], "name"),
                       return_type |-> Get(mts[i], "return_type"),
                       is_vararg |-> GetFlag(mts[i], "is_vararg"),
                       args |-> ArgTypes(mts[i])]]]
           ELSE <<>>))

get_builtin_layout(x, name, config) ==
  LET bn == _resolve_builtin_key(x, name)
      sizes == DictGet(x.builtin_sizes, config)
      offsets == DictGet(x.builtin_offsets, config)
      size == IF bn = None \/ sizes = None THEN None ELSE DictGet(sizes[1], bn[1])
      members == IF bn = None \/ offsets = None THEN None
                 ELSE DictGet(offsets[1], bn[1])
  IN IF size = None /\ (members = None \/ members[1] = <<>>) THEN None
     ELSE Some([class |-> bn[1], config |-> config, size |-> size,
                members |-> IF members = None THEN <<>> ELSE members[1]])

\* the member scan with a truthiness test on the offset: 0 reads as absent
get_builtin_member_offset_Truthy(x, name, member, config) ==
  LET layout == get_builtin_layout(x, name, config)
      ms == layout[1].members
      I == {i \in DOMAIN ms : Get(ms[i], "member") = Some(member)}
      off == Get(ms[Min(I)], "offset")
  IN IF layout = None THEN None
     ELSE IF I = {} THEN None
     ELSE IF off = Some(0) THEN None
     ELSE off

get_builtin_member_offset(x, name, member, config) ==
  LET layout == get_builtin_layout(x, name, config)
      ms == layout[1].members
      I == {i \in DOMAIN ms : Get(ms[i], "member") = Some(member)}
  IN IF layout = None THEN None
     ELSE IF I = {} THEN None
     ELSE Get(ms[Min(I)], "offset")

get_global_constant(x, name) ==
  LET gc == DictGet(x.global_constants_by_name, name)
      k == FirstKeyNoCase(x.global_constants_by_name, name)
  IN IF gc # None THEN gc
     ELSE IF k # None THEN DictGet(x.global_constants_by_name, k[1])
     ELSE None

\* the characters in code point order: what sorted() compares strings by
CodeOrder ==
  <<" ", ".">> \o DigitChars \o SubSeq(UpperChars, 1, 26) \o <<"_">>
    \o SubSeq(LowerChars, 1, 26) \o <<"É", "é">>

CodePoint(c) == CHOOSE i \in DOMAIN CodeOrder : CodeOrder[i] = c

\* s < t for two str
RECURSIVE StrLess(_, _)
StrLess(s, t) ==
  IF t = <<>> THEN FALSE
  ELSE IF s = <<>> THEN TRUE
  ELSE IF s[1] # t[1] THEN CodePoint(s[1]) < CodePoint(t[1])
  ELSE StrLess(Tail(s), Tail(t))

\* sorted(list(keys)) for the distinct keys of a dict
RECURSIVE SortedStrs(_)
SortedStrs(S) ==
  IF S = {} THEN <<>>
  ELSE LET m == CHOOSE m \in S : \A t \in S \ {m} : StrLess(m, t)
       IN <<m>> \o SortedStrs(S \ {m})

\* the detail record find_utility returns for the entry u under the name nm
UtilityDetail(nm, u) ==
  LET as == GetList(u, "arguments")
  IN [name |-> nm,
      category |-> Get(u, "category"),
      return_type |-> Get(u, "return_type"),
      args |-> [i \in DOMAIN as |-> Get(as[i], "type")]]

\* name and category are Optional; {} is the empty record
find_utility(x, name, category) ==
  LET u == DictGet(x.utility_by_name, name[1])
      k == FirstKeyNoCase(x.utility_by_name, name[1])
      fs == DictGet(x.utility_by_cat, category[1])
  IN IF TruthyStr(name)
     THEN IF u # None THEN UtilityDetail(name[1], u[1])
          ELSE IF k # None
          THEN UtilityDetail(k[1], DictGet(x.utility_by_name, k[1])[1])
          ELSE <<>>
     ELSE IF category # None
     THEN [category |-> category[1],
           functions |-> IF fs = None THEN <<>> ELSE fs[1]]
     ELSE [functions |-> SortedStrs(Range(DictKeys(x.utility_by_name)))]

(***************************************************************************)
(* Router                                                                  *)
(***************************************************************************)
\* sorted(names, key=len, reverse=True): stable, longest first
SortedLongestFirst(names) ==
  LET Rank(i) ==
        1 + Cardinality({j \in DOMAIN names :
                           \/ Len(names[j]) > Len(names[i])
                           \/ (Len(names[j]) = Len(names[i]) /\ j < i)})
  IN [p \in DOMAIN names |-> names[CHOOSE i \in DOMAIN names : Rank(i) = p]]

\* the name search without re.IGNORECASE: a name is found only as written
_extract_known_CaseSensitive(q, names) ==
  LET srt == SortedLongestFirst(names)
      Found(nm) == \E i \in 1..(Len(q) + 1) :
                     /\ Boundary(q, i)
                     /\ LiteralAt(q, i, nm)
                     /\ Boundary(q, i + Len(nm))
      I == {p \in DOMAIN srt : Found(srt[p])}
  IN IF I = {} THEN None ELSE Some(srt[Min(I)])

_extract_known(q, names) ==
  LET srt == SortedLongestFirst(names)
      I == {p \in DOMAIN srt : SearchKnown(q, srt[p])}
  IN IF I = {} THEN None ELSE Some(srt[Min(I)])

\* the hints of the help action
HelpHints ==
  <<<<"E","x","e","m","p","l","o","s",":">>,
    <<"b","u","i","l","t","i","n"," ","C","o","l","o","r">>,
    <<"l","a","y","o","u","t"," ","d","e"," ","C","o","l","o","r">>,
    <<"o","f","f","s","e","t"," ","d","e"," ","C","o","l","o","r",".","a">>,
    <<"t","a","m","a","n","h","o"," ","d","e"," ","V","e","c","t","o","r","3">>,
    <<"c","l","a","s","s","e"," ","N","o","d","e">>,
    <<"m","é","t","o","d","o"," ","a","d","d","_","c","h","i","l","d">>,
    <<"N","o","d","e",".","P","r","o","c","e","s","s","M","o","d","e">>>>

\* "layout" in ql or "tamanho" in ql or "size" in ql or "offset" in ql
LayoutTrigger(ql) ==
  \/ Contains(ql, S_layout)
  \/ Contains(ql, S_tamanho)
  \/ Contains(ql, S_size)
  \/ Contains(ql, S_offset)

\* step 1, the member-offset branch: the returned action, or None
RouteMemberOffset(x, q) ==
  LET names == DictKeys(x.builtin_classes_by_name)
      m3 == SearchM3(q)
      known == _extract_known(m3[1].g1, names)
      cls == IF TruthyStr(known) THEN known[1] ELSE m3[1].g1
      member == m3[1].g2
      off == get_builtin_member_offset(x, cls, member, S_float_32)
  IN IF ~(Contains(lower(q), S_offset) /\ Contains(q, <<".">>)) THEN None
     ELSE IF m3 = None THEN None
     ELSE IF off = None THEN None
     ELSE Some([action |-> "builtin_member_offset",
                params |-> [config |-> S_float_32, class |-> cls,
                            member |-> member],
                result |-> [offset |-> off[1]]])

\* step 1: builtin layout, size and offset
RouteLayout(x, q) ==
  LET bn == _extract_known(q, DictKeys(x.builtin_classes_by_name))
      mo == RouteMemberOffset(x, q)
      lay == get_builtin_layout(x, bn[1], S_float_32)
  IN IF ~LayoutTrigger(lower(q)) THEN None
     ELSE IF ~TruthyStr(bn) THEN None
     ELSE IF mo # None THEN mo
     ELSE IF lay # None
     THEN Some([action |-> "builtin_layout",
                params |-> [class |-> bn[1], config |-> lay[1].config],
                result |-> lay[1]])
     ELSE None

\* step 2: method by hash
RouteHash(x, q) ==
  LET m == SearchHash(lower(q))
  IN IF m = None THEN None
     ELSE Some([action |-> "method_by_hash",
                params |-> [hash |-> m[1]],
                result |-> find_method_by_hash(x, [str |-> m[1]])])

\* step 3: builtin detail
RouteBuiltin(x, q) ==
  LET m4a == SearchM4a(q)
      m4 == IF m4a # None THEN m4a ELSE SearchM4b(q)
      nm == IF m4 # None THEN m4
            ELSE _extract_known(q, DictKeys(x.builtin_classes_by_name))
  IN IF ~Contains(lower(q), S_builtin) THEN None
     ELSE IF ~TruthyStr(nm) THEN None
     ELSE Some([action |-> "builtin",
                params |-> [class |-> nm[1]],
                result |-> get_builtin(x, nm[1])])

\* step 4: Class.Enum
RouteClassEnum(x, q) ==
  LET m2 == SearchM2(q)
      qual == m2[1].g1 \o <<".">> \o m2[1].g2
  IN IF m2 = None THEN None
     ELSE Some([action |-> "class_enum",
                params |-> [qualified |-> qual],
                result |-> get_class_enum(x, qual)])

\* step 5: class detail
RouteClass(x, q) ==
  LET m5 == SearchM5(q)
      cname == IF m5 # None THEN m5
               ELSE _extract_known(q, DictKeys(x.classes_by_name))
  IN IF ~(Contains(lower(q), S_classe) \/ Contains(lower(q), S_class)) THEN None
     ELSE IF ~TruthyStr(cname) THEN None
     ELSE Some([action |-> "class",
                params |-> [name |-> cname[1]],
                result |-> list_class_items(x, cname[1])])

\* step 6 without its keyword test: any query with a word is a method query
RouteMethod_NoKeyword(x, q) ==
  LET m6 == SearchM6(q)
  IN IF m6 = None THEN None
     ELSE Some([action |-> "method_by_name",
                params |-> [name |-> m6[1]],
                result |-> find_methods(x, m6[1], None)])

\* step 6: method by name
RouteMethod(x, q) ==
  LET m6 == SearchM6(q)
  IN IF ~(\/ Contains(lower(q), S_metodo_acento)
          \/ Contains(lower(q), S_metodo)
          \/ Contains(lower(q), S_method)) THEN None
     ELSE IF m6 = None THEN None
     ELSE Some([action |-> "method_by_name",
                params |-> [name |-> m6[1]],
                result |-> find_methods(x, m6[1], None)])

\* the value of the first step of rs that returns one
FirstReturn(rs) == rs[Min({i \in DOMAIN rs : rs[i] # None})][1]

\* the cascade with steps 1 and 2 exchanged: the hash step tried first
route_HashFirst(x, q) ==
  FirstReturn(<<RouteHash(x, q),
                RouteLayout(x, q),
                RouteBuiltin(x, q),
                RouteClassEnum(x, q),
                RouteClass(x, q),
                RouteMethod(x, q),
                Some([action |-> "help", hints |-> HelpHints])>>)

\* the cascade: the first step that returns decides, help when none does
route(x, q) ==
  FirstReturn(<<RouteLayout(x, q),
                RouteHash(x, q),
                RouteBuiltin(x, q),
                RouteClassEnum(x, q),
                RouteClass(x, q),
                RouteMethod(x, q),
                Some([action |-> "help", hints |-> HelpHints])>>)

(***************************************************************************)
(* The schema documents the model loads.  They hold the irregular records   *)
(* the index builder tolerates: records without a name, names that differ   *)
(* only in letter case, builtins with a partial layout or none, hashes and   *)
(* compatibility hashes given as numbers, strings, lists and scalars.        *)
(***************************************************************************)
\* a well-formed schema
DocTypical ==
  [header |-> [version_full_name |-> <<"4",".","4">>],
    classes |-> <<[name |-> <<"N","o","d","e">>,
    inherits |-> <<"O","b","j","e","c","t">>,
    api_type |-> <<"c","o","r","e">>, is_instantiable |-> TRUE,
    is_refcounted |-> FALSE,
    methods |-> <<[name |-> <<"a","d","d","_","c","h","i","l","d">>,
    hash |-> [int |-> 12], hash_compatibility |-> [list |-> <<[int |-> 3],
    [int |-> 4]>>], arguments |-> <<[name |-> <<"n","o","d","e">>,
    type |-> <<"N","o","d","e">>]>>],
    [name |-> <<"g","e","t","_","n","a","m","e">>, hash |-> [int |-> 5],
    is_const |-> TRUE,
    return_value |-> [type |-> <<"S","t","r","i","n","g">>]]>>,
    properties |-> <<[name |-> <<"n","a","m","e">>,
    type |-> <<"S","t","r","i","n","g">>,
    getter |-> <<"g","e","t","_","n","a","m","e">>]>>,
    signals |-> <<[name |-> <<"r","e","a","d","y">>]>>,
    constants |-> <<[name |-> <<"K">>, value |-> 1]>>,
    enums |-> <<[name |-> <<"M","o","d","e">>, values |-> <<[name |-> <<"A">>,
    value |-> 0], [name |-> <<"B">>, value |-> 1]>>]>>],
    [name |-> <<"O","b","j","e","c","t">>,
    methods |-> <<[name |-> <<"g","e","t","_","n","a","m","e">>,
    hash |-> [int |-> 5],
    return_value |-> [type |-> <<"S","t","r","i","n","g">>]],
    [name |-> <<"f","r","e","e">>, hash |-> [int |-> 1]]>>]>>,
    global_enums |-> <<[name |-> <<"S","i","d","e">>,
    values |-> <<[name |-> <<"L">>, value |-> 0]>>]>>,
    singletons |-> <<[name |-> <<"E","n","g","i","n","e">>,
    type |-> <<"E","n","g","i","n","e">>]>>,
    utility_functions |-> <<[name |-> <<"s","i","n">>,
    category |-> <<"m","a","t","h">>, return_type |-> <<"f","l","o","a","t">>,
    arguments |-> <<[name |-> <<"x">>, type |-> <<"f","l","o","a","t">>]>>]>>,
    builtin_class_sizes |-> <<[build_configuration |-> <<"f","l","o","a","t","_","3","2">>,
    sizes |-> <<[name |-> <<"C","o","l","o","r">>, size |-> 16],
    [name |-> <<"V","e","c","t","o","r","3">>, size |-> 12]>>],
    [build_configuration |-> <<"f","l","o","a","t","_","6","4">>,
    sizes |-> <<[name |-> <<"C","o","l","o","r">>, size |-> 16],
    [name |-> <<"V","e","c","t","o","r","3">>, size |-> 24]>>]>>,
    builtin_class_member_offsets |-> <<[build_configuration |-> <<"f","l","o","a","t","_","3","2">>,
    classes |-> <<[name |-> <<"C","o","l","o","r">>,
    members |-> <<[member |-> <<"r">>, offset |-> 0,
    meta |-> <<"f","l","o","a","t">>], [member |-> <<"a">>, offset |-> 12,
    meta |-> <<"f","l","o","a","t">>]>>],
    [name |-> <<"V","e","c","t","o","r","3">>,
    members |-> <<[member |-> <<"x">>, offset |-> 0,
    meta |-> <<"f","l","o","a","t">>], [member |-> <<"y">>, offset |-> 4,
    meta |-> <<"f","l","o","a","t">>]>>]>>],
    [build_configuration |-> <<"f","l","o","a","t","_","6","4">>,
    classes |-> <<[name |-> <<"V","e","c","t","o","r","3">>,
    members |-> <<[member |-> <<"x">>, offset |-> 0,
    meta |-> <<"d","o","u","b","l","e">>], [member |-> <<"y">>, offset |-> 8,
    meta |-> <<"d","o","u","b","l","e">>]>>]>>]>>,
    native_structures |-> <<[name |-> <<"G","l","y","p","h">>,
    format |-> <<"i","n","t"," ","x">>]>>,
    builtin_classes |-> <<[name |-> <<"C","o","l","o","r">>,
    is_keyed |-> FALSE, has_destructor |-> FALSE,
    members |-> <<[name |-> <<"r">>, type |-> <<"f","l","o","a","t">>],
    [name |-> <<"a">>, type |-> <<"f","l","o","a","t">>]>>,
    constants |-> <<[name |-> <<"R","E","D">>,
    type |-> <<"C","o","l","o","r">>,
    value |-> <<"C","o","l","o","r","(","1",","," ","0",","," ","0",","," ","1",")">>]>>],
    [name |-> <<"V","e","c","t","o","r","3">>, is_keyed |-> FALSE,
    has_destructor |-> FALSE,
    indexing_return_type |-> <<"f","l","o","a","t">>,
    members |-> <<[name |-> <<"x">>, type |-> <<"f","l","o","a","t">>],
    [name |-> <<"y">>, type |-> <<"f","l","o","a","t">>]>>,
    constructors |-> <<[index |-> 0], [index |-> 1,
    arguments |-> <<[name |-> <<"f","r","o","m">>,
    type |-> <<"V","e","c","t","o","r","3">>]>>]>>,
    operators |-> <<[name |-> <<"=","=">>,
    right_type |-> <<"V","e","c","t","o","r","3">>,
    return_type |-> <<"b","o","o","l">>]>>,
    methods |-> <<[name |-> <<"l","e","n","g","t","h">>,
    return_type |-> <<"f","l","o","a","t">>, is_vararg |-> FALSE,
    hash |-> [int |-> 7]]>>]>>, global_constants |-> <<[name |-> <<"O","K">>,
    value |-> 0]>>]

\* names that differ only in letter case
DocCaseTwins ==
  [header |-> [version_full_name |-> <<"4",".","4">>],
    classes |-> <<[name |-> <<"n","o","d","e">>,
    methods |-> <<[name |-> <<"g","e","t","_","n","a","m","e">>,
    hash |-> [int |-> 7]]>>], [name |-> <<"N","o","d","e">>,
    methods |-> <<[name |-> <<"g","e","t","_","n","a","m","e">>,
    hash |-> [int |-> 5]]>>, enums |-> <<[name |-> <<"M","o","d","e">>,
    values |-> <<[name |-> <<"A">>, value |-> 0]>>]>>]>>,
    builtin_class_sizes |-> <<[build_configuration |-> <<"f","l","o","a","t","_","3","2">>,
    sizes |-> <<[name |-> <<"C","o","l","o","r">>, size |-> 16],
    [name |-> <<"c","o","l","o","r">>, size |-> 4]>>]>>,
    builtin_class_member_offsets |-> <<[build_configuration |-> <<"f","l","o","a","t","_","3","2">>,
    classes |-> <<[name |-> <<"C","o","l","o","r">>,
    members |-> <<[member |-> <<"r">>, offset |-> 0,
    meta |-> <<"f","l","o","a","t">>], [member |-> <<"a">>, offset |-> 12,
    meta |-> <<"f","l","o","a","t">>]>>], [name |-> <<"c","o","l","o","r">>,
    members |-> <<[member |-> <<"a">>, offset |-> 0,
    meta |-> <<"f","l","o","a","t">>]>>]>>]>>,
    builtin_classes |-> <<[name |-> <<"c","o","l","o","r">>,
    is_keyed |-> FALSE, has_destructor |-> FALSE,
    members |-> <<[name |-> <<"a">>, type |-> <<"f","l","o","a","t">>]>>],
    [name |-> <<"C","o","l","o","r">>, is_keyed |-> FALSE,
    has_destructor |-> FALSE, members |-> <<[name |-> <<"r">>,
    type |-> <<"f","l","o","a","t">>], [name |-> <<"a">>,
    type |-> <<"f","l","o","a","t">>]>>]>>]

\* builtins with a partial layout or none
DocLayoutGaps ==
  [version |-> [string |-> <<"4",".","4">>],
    classes |-> <<[name |-> <<"O","b","j","e","c","t">>]>>,
    builtin_class_sizes |-> <<[build_configuration |-> <<"f","l","o","a","t","_","3","2">>,
    sizes |-> <<[name |-> <<"V","e","c","t","o","r","3">>, size |-> 0],
    [name |-> <<"O","b","j","e","c","t">>, size |-> 8]>>]>>,
    builtin_class_member_offsets |-> <<[build_configuration |-> <<"f","l","o","a","t","_","3","2">>,
    classes |-> <<[name |-> <<"V","e","c","t","o","r","3">>,
    members |-> <<>>], [name |-> <<"R","e","c","t","2">>,
    members |-> <<[member |-> <<"x">>, offset |-> 0,
    meta |-> <<"f","l","o","a","t">>]>>]>>]>>,
    builtin_classes |-> <<[name |-> <<"C","o","l","o","r">>,
    is_keyed |-> FALSE, has_destructor |-> FALSE],
    [name |-> <<"V","e","c","t","o","r","3">>, is_keyed |-> FALSE,
    has_destructor |-> FALSE], [name |-> <<"R","e","c","t","2">>,
    is_keyed |-> FALSE, has_destructor |-> FALSE]>>]

\* records with absent optional fields
DocSparse ==
  [classes |-> <<[methods |-> <<[name |-> <<"l","o","s","t">>,
    hash |-> [int |-> 5]]>>], [name |-> <<"N","o","d","e">>,
    methods |-> <<[hash |-> [int |-> 3]],
    [name |-> <<"a","d","d","_","c","h","i","l","d">>,
    hash |-> [str |-> <<"1","2">>], hash_compatibility |-> [int |-> 12]],
    [name |-> <<"g","e","t","_","n","a","m","e">>, hash |-> [int |-> 4],
    hash_compatibility |-> [list |-> <<[str |-> <<"4">>],
    [str |-> <<"0","4">>]>>]], [name |-> <<"f","r","e","e">>]>>,
    enums |-> <<[values |-> <<[name |-> <<"A">>, value |-> 0]>>],
    [name |-> <<"M","o","d","e">>, values |-> <<>>]>>]>>,
    builtin_class_sizes |-> <<[sizes |-> <<[name |-> <<"C","o","l","o","r">>,
    size |-> 16]>>],
    [build_configuration |-> <<"f","l","o","a","t","_","3","2">>,
    sizes |-> <<[name |-> <<"C","o","l","o","r">>]>>]>>,
    builtin_class_member_offsets |-> <<[build_configuration |-> <<"f","l","o","a","t","_","3","2">>,
    classes |-> <<[members |-> <<[member |-> <<"x">>, offset |-> 0]>>],
    [name |-> <<"C","o","l","o","r">>, members |-> <<[member |-> <<"a">>,
    offset |-> 0]>>]>>]>>,
    builtin_classes |-> <<[name |-> <<"C","o","l","o","r">>],
    [is_keyed |-> TRUE]>>]

\* an empty document
DocEmpty ==
  <<>>

\* global enums, utility functions and global constants whose names differ
\* only in letter case
DocGlobalTwins ==
  [header |-> [version_full_name |-> <<"4",".","4">>],
    global_enums |-> <<[name |-> <<"s","i","d","e">>,
    values |-> <<[name |-> <<"l">>, value |-> 0]>>],
    [name |-> <<"S","i","d","e">>,
    values |-> <<[name |-> <<"L">>, value |-> 0]>>]>>,
    utility_functions |-> <<[name |-> <<"s","i","n">>,
    category |-> <<"m","a","t","h">>, return_type |-> <<"f","l","o","a","t">>,
    arguments |-> <<[name |-> <<"x">>, type |-> <<"f","l","o","a","t">>]>>],
    [name |-> <<"S","i","n">>, category |-> <<"m","a","t","h">>,
    return_type |-> <<"i","n","t">>],
    [name |-> <<"a","b","s">>, return_type |-> <<"i","n","t">>]>>,
    global_constants |-> <<[name |-> <<"o","k">>, value |-> 1],
    [name |-> <<"O","K">>, value |-> 0]>>]

Docs ==
  {DocTypical, DocCaseTwins, DocLayoutGaps, DocSparse, DocEmpty, DocGlobalTwins}

(***************************************************************************)
(* The queries given to route: a leading word, a middle word and a trailing  *)
(* word, each of which may be missing, separated by 1..MaxPad spaces.        *)
(***************************************************************************)
\* trigger keywords, and none
LeadWords ==
  {<<>>,
   <<"l","a","y","o","u","t">>,
   <<"t","a","m","a","n","h","o">>,
   <<"s","i","z","e">>,
   <<"o","f","f","s","e","t">>,
   <<"h","a","s","h",":">>,
   <<"b","u","i","l","t","i","n">>,
   <<"c","l","a","s","s">>,
   <<"c","l","a","s","s","e">>,
   <<"m","e","t","h","o","d">>,
   <<"m","é","t","o","d","o">>}

\* names, dotted tokens, numbers, and none
MidWords ==
  {<<>>,
   <<"d","e">>,
   <<"C","o","l","o","r">>,
   <<"c","o","l","o","r">>,
   <<"C","O","L","O","R">>,
   <<"V","e","c","t","o","r","3">>,
   <<"R","e","c","t","2">>,
   <<"C","o","l","o","r",".","a">>,
   <<"c","o","l","o","r",".","r">>,
   <<"C","o","l","o","r",".","z","z">>,
   <<"C","o","l","o","r"," ","."," ","a">>,
   <<"F","o","o",".","x">>,
   <<"N","o","d","e">>,
   <<"N","O","D","E">>,
   <<"N","o","d","e",".","M","o","d","e">>,
   <<"n","o","d","e",".","M","o","d","e">>,
   <<"5">>,
   <<"1","2">>,
   <<"a","d","d","_","c","h","i","l","d">>}

\* a second name, dotted token or keyword, and none
TailWords ==
  {<<>>,
   <<"C","o","l","o","r">>,
   <<"c","o","l","o","r">>,
   <<"C","O","L","O","R">>,
   <<"C","o","l","o","r",".","a">>,
   <<"N","o","d","e",".","M","o","d","e">>,
   <<"o","f","f","s","e","t">>,
   <<"b","u","i","l","t","i","n">>,
   <<"c","l","a","s","s","e">>,
   <<"m","e","t","o","d","o">>,
   <<"h","a","s","h"," ","5">>}


\* the largest number of spaces between two words of a query
MaxPad == 1

\* the largest hash number looked up
MaxHash == 12

Pad(n) == [i \in 1..n |-> " "]

JoinWords(ws, n) ==
  LET NonEmpty(w) == w # <<>> IN Join(SelectSeq(ws, NonEmpty), Pad(n))

Queries ==
  {JoinWords(<<a, b, c>>, n) :
     a \in LeadWords, b \in MidWords, c \in TailWords, n \in 1..MaxPad}

\* class names as a caller may type them
ClassNameInputs ==
  {<<"N","o","d","e">>,
   <<"n","o","d","e">>,
   <<"N","O","D","E">>,
   <<"O","b","j","e","c","t">>,
   <<"C","o","l","o","r">>,
   <<>>}

\* method names as a caller may type them
MethodNameInputs ==
  {<<"a","d","d","_","c","h","i","l","d">>,
   <<"g","e","t","_","n","a","m","e">>,
   <<"f","r","e","e">>,
   <<"l","o","s","t">>,
   <<"G","e","t","_","N","a","m","e">>}

\* enum names as a caller may type them
EnumNameInputs ==
  {<<"M","o","d","e">>,
   <<"m","o","d","e">>,
   <<"A">>}

\* qualified enum names as a caller may type them
QualifiedInputs ==
  {c \o <<".">> \o e : c \in ClassNameInputs, e \in EnumNameInputs}
    \cup {<<"N","o","d","e">>, <<"N","o","d","e",".","M","o","d","e",".","A">>}

\* builtin names as a caller may type them
BuiltinNameInputs ==
  {<<"C","o","l","o","r">>,
   <<"c","o","l","o","r">>,
   <<"C","O","L","O","R">>,
   <<"V","e","c","t","o","r","3">>,
   <<"R","e","c","t","2">>,
   <<"O","b","j","e","c","t">>,
   <<"P","l","a","n","e">>}

\* member names as a caller may type them
MemberInputs ==
  {<<"r">>,
   <<"a">>,
   <<"x">>,
   <<"z","z">>}

\* build configurations as a caller may type them
ConfigInputs ==
  {<<"f","l","o","a","t","_","3","2">>,
   <<"f","l","o","a","t","_","6","4">>,
   <<"d","o","u","b","l","e","_","6","4">>}

\* global enum names as a caller may type them
GlobalEnumNameInputs ==
  {<<"S","i","d","e">>,
   <<"s","i","d","e">>,
   <<"S","I","D","E">>,
   <<"M","o","d","e">>}

\* utility function names as a caller may type them: None and '' give the
\* category and catalogue modes
UtilityNameInputs ==
  {None,
   Some(<<>>),
   Some(<<"s","i","n">>),
   Some(<<"S","i","n">>),
   Some(<<"S","I","N">>),
   Some(<<"c","o","s">>)}

\* utility categories as a caller may type them
CategoryInputs ==
  {None,
   Some(<<"m","a","t","h">>),
   Some(<<>>),
   Some(<<"M","a","t","h">>)}

\* global constant names as a caller may type them
ConstantNameInputs ==
  {<<"O","K">>,
   <<"o","k">>,
   <<"O","k">>,
   <<"N","O">>}

\* hashes as a caller may give them: numbers and strings
HashInputs ==
  {[int |-> n] : n \in 0..MaxHash}
    \cup {[str |-> s] : s \in {<<"5">>,
   <<"1","2">>,
   <<"0","4">>,
   <<"x">>}}

(***************************************************************************)
(* The transport (extapi_http): configuration, the document file, the      *)
(* API key guard and the route handlers.                                   *)
(***************************************************************************)
\* EXTAPI_CONFIGS unset: "float_32,float_64"
VALID_CONFIGS ==
  {<<"f","l","o","a","t","_","3","2">>, <<"f","l","o","a","t","_","6","4">>}

\* the module-level configuration read from the environment at import; no
\* variable set: EXTAPI_KEY "", OPEN_DOCS "0", DOCS_PUBLIC "0"
DefaultEnv == [API_KEY |-> <<>>, OPEN_DOCS |-> FALSE, DOCS_PUBLIC |-> FALSE]

Envs ==
  [API_KEY : {<<>>, <<"s","k">>}, OPEN_DOCS : BOOLEAN, DOCS_PUBLIC : BOOLEAN]

\* OPEN_PATHS as the import leaves it
OPEN_PATHS(e) ==
  {"/health"} \cup (IF e.OPEN_DOCS /\ e.DOCS_PUBLIC
                    THEN {"/docs", "/redoc", "/openapi.json"} ELSE {})

\* str.strip()
RECURSIVE strip(_)
strip(s) ==
  IF s = <<>> THEN s
  ELSE IF s[1] \in Space THEN strip(Tail(s))
  ELSE IF s[Len(s)] \in Space THEN strip(SubSeq(s, 1, Len(s) - 1))
  ELSE s

\* the contents the document file may have: a JSON object, a JSON array,
\* or text that is not JSON
JsonObject(d) == [kind |-> "object", value |-> d]

JsonArray == [kind |-> "array"]

NotJson == [kind |-> "garbage"]

\* the threads that run the route handlers
Threads == {1, 2}

\* a handler thread: its position, and its locals (m of maybe_reload, the
\* ExtApi under construction with the modification time of the document
\* version it was read from, the ExtApi obtained from state.ext, the
\* exception raised)
IdleHandler ==
  [pc |-> "idle", m |-> 0, obj |-> None, version |-> 0, got |-> None,
   err |-> "none"]

\* api_key_guard: TRUE when the request goes on to call_next, FALSE when it
\* is answered 401
api_key_guard(e, req) ==
  LET auth == req.authorization
      incoming ==
        IF req.x_api_key # None THEN req.x_api_key
        ELSE IF TruthyStr(auth)
                /\ StartsWith(lower(auth[1]), <<"b","e","a","r","e","r"," ">>)
        THEN Some(SubSeq(auth[1], 8, Len(auth[1])))
        ELSE None
      stripped == strip(IF TruthyStr(incoming) THEN incoming[1] ELSE <<>>)
      expected == strip(e.API_KEY)
  IN IF req.method \in {"OPTIONS", "HEAD"} THEN TRUE
     ELSE IF e.API_KEY = <<>> THEN TRUE
     ELSE IF req.target.path \in OPEN_PATHS(e) THEN TRUE
     ELSE ~(stripped = <<>> \/ stripped # expected)

\* _validate_config_or_400: TRUE when it raises
_validate_config_or_400(config) ==
  config # <<>> /\ VALID_CONFIGS # {} /\ config \notin VALID_CONFIGS

\* the operations class ExtApi defines
ExtApiOperations ==
  {"info", "get_class", "list_class_items", "find_methods",
   "find_method_by_hash", "get_global_enum", "get_class_enum",
   "list_singletons", "find_utility", "list_builtin_names", "get_builtin",
   "get_builtin_layout", "get_builtin_member_offset", "get_global_constant",
   "list_global_constants", "route"}

\* the operation of state.ext each route handler calls
CoreOperation ==
  [health |-> "info", get_info |-> "info", get_class |-> "get_class",
   get_class_items |-> "list_class_items", methods_by_name |-> "find_methods",
   methods_by_hash |-> "find_method_by_hash",
   enum_global |-> "get_global_enum", enum_class |-> "get_class_enum",
   singletons |-> "list_singletons", utility |-> "find_utility",
   builtin_names |-> "list_builtin_names", builtin_detail |-> "get_builtin",
   builtin_layout |-> "get_builtin_layout",
   builtin_offset |-> "get_builtin_member_offset",
   native_structs |-> "list_native_structs",
   native_struct_detail |-> "get_native_struct", blob_map |-> "get_blob_map",
   blob_range |-> "get_blob_range"]

\* the status a route handler answers with, given the served indexes x and
\* the path and query parameters a; an operation ExtApi does not define
\* raises AttributeError, which the server answers with 500
HandlerStatus(x, r, a) ==
  LET NotFoundIf(absent) == IF absent THEN 404 ELSE 200
  IN IF r \in {"builtin_layout", "builtin_offset"}
        /\ _validate_config_or_400(a.config)
     THEN 400
     ELSE IF r = "blob_range" /\ a.end <= a.start THEN 400
     ELSE IF CoreOperation[r] \notin ExtApiOperations THEN 500
     ELSE CASE r = "get_class" -> NotFoundIf(get_class(x, a.name) = None)
            [] r = "get_class_items" ->
                 NotFoundIf(list_class_items(x, a.name) = None)
            [] r = "enum_global" ->
                 NotFoundIf(get_global_enum(x, a.name) = None)
            [] r = "enum_class" ->
                 NotFoundIf(get_class_enum(x, a.qualified) = None)
            [] r = "builtin_detail" -> NotFoundIf(get_builtin(x, a.name) = None)
            [] r = "builtin_layout" ->
                 NotFoundIf(get_builtin_layout(x, a.name, a.config) = None)
            [] r = "builtin_offset" ->
                 NotFoundIf(get_builtin_member_offset(x, a.name, a.member,
                                                      a.config) = None)
            [] OTHER -> 200

\* what call_next answers: the router's 404 and 405, the documentation
\* pages when OPEN_DOCS gave them a URL (plain routes, which also answer
\* HEAD), else the route handler (registered for GET only)
call_next(e, x, req) ==
  LET r == req.target.route
  IN IF r = "none" THEN 404
     ELSE IF r = "docs"
     THEN IF ~e.OPEN_DOCS THEN 404
          ELSE IF req.method \in {"GET", "HEAD"} THEN 200
          ELSE 405
     ELSE IF req.method # "GET" THEN 405
     ELSE HandlerStatus(x, r, req.target.args)

\* the response to a request: whether the guard let it through, and the
\* status code
Respond(e, x, req) ==
  IF api_key_guard(e, req)
  THEN [passed |-> TRUE, status |-> call_next(e, x, req)]
  ELSE [passed |-> FALSE, status |-> 401]

(***************************************************************************)
(* The state machine: an ExtApi built from one document, and a caller that *)
(* makes one call at a time.  call holds the operation, its arguments and  *)
(* the value it returned, until the caller takes the result.               *)
(***************************************************************************)
Idle == [op |-> "idle"]

\* ExtApi.__init__: load the document, build the indexes
Init ==
  \E d \in Docs :
    /\ api = d
    /\ ix = _build_indexes(d)
    /\ call = Idle
    /\ env = DefaultEnv
    /\ disk = [present |-> TRUE, content |-> JsonObject(d), st_mtime |-> 1]
    /\ _mtime = 1
    /\ handlers = [t \in Threads |-> IdleHandler]

Route(q) ==
  /\ call = Idle
  /\ call' = [op |-> "route", q |-> q, ret |-> route(ix, q)]
  /\ UNCHANGED <<api, ix, srv>>

FindMethods(name, cls) ==
  /\ call = Idle
  /\ call' = [op |-> "find_methods", name |-> name, cls |-> cls,
              ret |-> find_methods(ix, name, cls)]
  /\ UNCHANGED <<api, ix, srv>>

FindMethodByHash(h) ==
  /\ call = Idle
  /\ call' = [op |-> "find_method_by_hash", h |-> h,
              ret |-> find_method_by_hash(ix, h)]
  /\ UNCHANGED <<api, ix, srv>>

GetClassEnum(qualified) ==
  /\ call = Idle
  /\ call' = [op |-> "get_class_enum", qualified |-> qualified,
              ret |-> get_class_enum(ix, qualified)]
  /\ UNCHANGED <<api, ix, srv>>

GetBuiltin(name) ==
  /\ call = Idle
  /\ call' = [op |-> "get_builtin", name |-> name, ret |-> get_builtin(ix, name)]
  /\ UNCHANGED <<api, ix, srv>>

GetBuiltinLayout(name, config) ==
  /\ call = Idle
  /\ call' = [op |-> "get_builtin_layout", name |-> name, config |-> config,
              ret |-> get_builtin_layout(ix, name, config)]
  /\ UNCHANGED <<api, ix, srv>>

GetBuiltinMemberOffset(name, member, config) ==
  /\ call = Idle
  /\ call' = [op |-> "get_builtin_member_offset", name |-> name,
              member |-> member, config |-> config,
              ret |-> get_builtin_member_offset(ix, name, member, config)]
  /\ UNCHANGED <<api, ix, srv>>

GetClass(name) ==
  /\ call = Idle
  /\ call' = [op |-> "get_class", name |-> name, ret |-> get_class(ix, name)]
  /\ UNCHANGED <<api, ix, srv>>

ListClassItems(name) ==
  /\ call = Idle
  /\ call' = [op |-> "list_class_items", name |-> name,
              ret |-> list_class_items(ix, name)]
  /\ UNCHANGED <<api, ix, srv>>

GetGlobalEnum(name) ==
  /\ call = Idle
  /\ call' = [op |-> "get_global_enum", name |-> name,
              ret |-> get_global_enum(ix, name)]
  /\ UNCHANGED <<api, ix, srv>>

FindUtility(name, category) ==
  /\ call = Idle
  /\ call' = [op |-> "find_utility", name |-> name, category |-> category,
              ret |-> find_utility(ix, name, category)]
  /\ UNCHANGED <<api, ix, srv>>

GetGlobalConstant(name) ==
  /\ call = Idle
  /\ call' = [op |-> "get_global_constant", name |-> name,
              ret |-> get_global_constant(ix, name)]
  /\ UNCHANGED <<api, ix, srv>>

\* the caller takes the returned value
Return ==
  /\ call # Idle
  /\ call' = Idle
  /\ UNCHANGED <<api, ix, srv>>

Next ==
  \/ \E q \in Queries : Route(q)
  \/ \E name \in MethodNameInputs, c \in ClassNameInputs :
       FindMethods(name, None) \/ FindMethods(name, Some(c))
  \/ \E h \in HashInputs : FindMethodByHash(h)
  \/ \E qualified \in QualifiedInputs : GetClassEnum(qualified)
  \/ \E name \in BuiltinNameInputs : GetBuiltin(name)
  \/ \E name \in BuiltinNameInputs, config \in ConfigInputs :
       GetBuiltinLayout(name, config)
  \/ \E name \in BuiltinNameInputs, member \in MemberInputs,
        config \in ConfigInputs :
       GetBuiltinMemberOffset(name, member, config)
  \/ \E name \in ClassNameInputs : GetClass(name)
  \/ \E name \in ClassNameInputs : ListClassItems(name)
  \/ \E name \in GlobalEnumNameInputs : GetGlobalEnum(name)
  \/ \E name \in UtilityNameInputs, category \in CategoryInputs :
       FindUtility(name, category)
  \/ \E name \in ConstantNameInputs : GetGlobalConstant(name)
  \/ Return

Spec == Init /\ [][Next]_vars

(***************************************************************************)
(* What the document records, read from the document itself (not from the  *)
(* indexes): the reference the accessors are compared with.                *)
(***************************************************************************)
\* the names of the document's builtin classes
DocBuiltinNames(a) ==
  LET bs == GetList(a, "builtin_classes")
  IN {bs[i].name : i \in {j \in DOMAIN bs : TruthyStr(Get(bs[j], "name"))}}

\* the names of the document's classes
DocClassNames(a) ==
  LET cs == GetList(a, "classes")
  IN {cs[i].name : i \in {j \in DOMAIN cs : TruthyStr(Get(cs[j], "name"))}}

\* the size recorded for builtin B under build configuration K, if any
DocSize(a, K, B) ==
  LET confs == GetList(a, "builtin_class_sizes")
      Found == {<<i, j>> \in (DOMAIN confs) \X (1..8) :
                  /\ Get(confs[i], "build_configuration") = Some(K)
                  /\ j \in DOMAIN GetList(confs[i], "sizes")
                  /\ Get(confs[i].sizes[j], "name") = Some(B)
                  /\ "size" \in DOMAIN confs[i].sizes[j]}
  IN IF Found = {} THEN None
     ELSE LET p == CHOOSE p \in Found : TRUE IN Some(confs[p[1]].sizes[p[2]].size)

\* the member offsets recorded for builtin B under K: None when B has no
\* entry there
DocMembers(a, K, B) ==
  LET confs == GetList(a, "builtin_class_member_offsets")
      Found == {<<i, j>> \in (DOMAIN confs) \X (1..8) :
                  /\ Get(confs[i], "build_configuration") = Some(K)
                  /\ j \in DOMAIN GetList(confs[i], "classes")
                  /\ Get(confs[i].classes[j], "name") = Some(B)}
  IN IF Found = {} THEN None
     ELSE LET p == CHOOSE p \in Found : TRUE
          IN Some(GetList(confs[p[1]].classes[p[2]], "members"))

\* the offset recorded for member m of builtin B under K, if any
DocOffset(a, K, B, m) ==
  LET ms == DocMembers(a, K, B)
      I == {i \in DOMAIN ms[1] : Get(ms[1][i], "member") = Some(m)}
  IN IF ms = None \/ I = {} THEN None ELSE Get(ms[1][Min(I)], "offset")

\* B has a layout under K: a size, or at least one member offset
DocHasLayout(a, K, B) ==
  \/ DocSize(a, K, B) # None
  \/ (DocMembers(a, K, B) # None /\ DocMembers(a, K, B)[1] # <<>>)

\* the (class, method) pairs of the named methods of the named classes, in
\* document order
RECURSIVE DocMethodPairs(_, _)
DocMethodPairs(cs, i) ==
  IF i > Len(cs) THEN <<>>
  ELSE LET ms == GetList(cs[i], "methods")
           Named(k) == TruthyStr(Get(ms[k], "name"))
           mine == [k \in DOMAIN ms |-> [cls |-> cs[i].name, m |-> ms[k], ok |-> Named(k)]]
           IsOk(e) == e.ok
       IN (IF TruthyStr(Get(cs[i], "name")) THEN SelectSeq(mine, IsOk) ELSE <<>>)
          \o DocMethodPairs(cs, i + 1)

\* the names of the builtin classes that are equal to nm ignoring case
SameNoCase(names, nm) == {k \in names : lower(k) = lower(nm)}

(***************************************************************************)
(* The triggers of the cascade, as the claims name them.                   *)
(***************************************************************************)
\* 1: a layout/size/offset keyword
Trigger1(q) == LayoutTrigger(lower(q))

\* 2: 'hash' followed by a decimal number
Trigger2(q) == SearchHash(lower(q)) # None

\* 3: the 'builtin' keyword
Trigger3(q) == Contains(lower(q), S_builtin)

\* 4: an Identifier.Identifier token
Trigger4(q) == \E i \in 1..Len(q) : M2At(q, i) # None

\* 5: the 'class'/'classe' keyword
Trigger5(q) == Contains(lower(q), S_class) \/ Contains(lower(q), S_classe)

\* 6: the 'method'/'metodo'/'método' keyword
Trigger6(q) ==
  \/ Contains(lower(q), S_method)
  \/ Contains(lower(q), S_metodo)
  \/ Contains(lower(q), S_metodo_acento)

\* the actions a step may return; step 7 is the fallback
StepActions(k) ==
  CASE k = 1 -> {"builtin_member_offset", "builtin_layout"}
    [] k = 2 -> {"method_by_hash"}
    [] k = 3 -> {"builtin"}
    [] k = 4 -> {"class_enum"}
    [] k = 5 -> {"class"}
    [] k = 6 -> {"method_by_name"}
    [] OTHER -> {"help"}

Triggered(k, q) ==
  CASE k = 1 -> Trigger1(q)
    [] k = 2 -> Trigger2(q)
    [] k = 3 -> Trigger3(q)
    [] k = 4 -> Trigger4(q)
    [] k = 5 -> Trigger5(q)
    [] k = 6 -> Trigger6(q)
    [] OTHER -> TRUE

\* a known name stands in q as a whole word, in any letter case
HasKnownWord(q, names) == \E nm \in names : SearchKnown(q, nm)

\* the position of the builtin class named nm in the document
DocBuiltinPos(a, nm) ==
  LET bs == GetList(a, "builtin_classes")
  IN Min({j \in DOMAIN bs : Get(bs[j], "name") = Some(nm)})

\* the builtin name the query is about: among the builtin names that stand
\* in q as a whole word, the longest, and the earliest in the document among
\* equally long ones; the empty set when there is none
PickedBuiltin(a, q) ==
  LET In == {nm \in DocBuiltinNames(a) : SearchKnown(q, nm)}
  IN {nm \in In :
        \A o \in In : \/ Len(o) < Len(nm)
                      \/ Len(o) = Len(nm) /\ DocBuiltinPos(a, nm) <= DocBuiltinPos(a, o)}

\* the builtin name a written name B stands for: the earliest builtin name
\* in the document that equals B ignoring case; the empty set when none
StandsFor(a, B) ==
  LET Same == SameNoCase(DocBuiltinNames(a), B)
  IN {nm \in Same : \A o \in Same : DocBuiltinPos(a, nm) <= DocBuiltinPos(a, o)}

\* step k finds what it looks for in q
Resolves(a, k, q) ==
  CASE k = 1 ->
         /\ HasKnownWord(q, DocBuiltinNames(a))
         /\ \/ \E nm \in PickedBuiltin(a, q) : DocHasLayout(a, S_float_32, nm)
            \/ /\ Contains(lower(q), S_offset)
               /\ SearchM3(q) # None
               /\ \E nm \in StandsFor(a, SearchM3(q)[1].g1) :
                    DocOffset(a, S_float_32, nm, SearchM3(q)[1].g2) # None
    [] k = 3 ->
         \/ SearchM4a(q) # None
         \/ SearchM4b(q) # None
         \/ HasKnownWord(q, DocBuiltinNames(a))
    [] k = 5 ->
         \/ SearchM5(q) # None
         \/ HasKnownWord(q, DocClassNames(a))
    [] k = 6 -> SearchM6(q) # None
    [] OTHER -> TRUE

Fires(a, k, q) == Triggered(k, q) /\ Resolves(a, k, q)

DottedTokens(q) ==
  {M2At(q, i)[1] : i \in {j \in 1..Len(q) : M2At(q, j) # None}}

\* C2 as stated: a query that contains 'offset' and a dotted token B.m, B a
\* builtin name and m a member listed in B's float_32 offsets, is routed to
\* builtin_member_offset with class B, member m and the offset recorded for
\* m, wherever the token stands and whatever else the query holds.
C2_MemberOffsetForAnyDottedToken ==
  (call.op = "route" /\ Contains(lower(call.q), S_offset)) =>
    \A t \in DottedTokens(call.q) :
      (/\ t.g1 \in DocBuiltinNames(api)
       /\ DocOffset(api, S_float_32, t.g1, t.g2) # None)
        => /\ call.ret.action = "builtin_member_offset"
           /\ call.ret.params.class = t.g1
           /\ call.ret.params.member = t.g2
           /\ call.ret.result.offset = DocOffset(api, S_float_32, t.g1, t.g2)[1]

\* C3 as stated: a query that contains 'offset' and a dotted token whose left
\* side is, in any letter case, the name of a builtin class is never routed
\* to class_enum, whether or not the builtin has a size or offsets.
C3_OffsetQueryNeverClassEnum ==
  (call.op = "route" /\ Contains(lower(call.q), S_offset)) =>
    ((\E t \in DottedTokens(call.q) : SameNoCase(DocBuiltinNames(api), t.g1) # {})
       => call.ret.action # "class_enum")

S_hash == <<"h","a","s","h">>

\* the action names of the router
RouteActions ==
  {"builtin_member_offset", "builtin_layout", "method_by_hash", "builtin",
   "class_enum", "class", "method_by_name", "help"}

\* q holds none of the trigger keywords and no Identifier.Identifier token
NoTrigger(q) ==
  /\ ~Trigger1(q)
  /\ ~Contains(lower(q), S_hash)
  /\ ~Trigger3(q)
  /\ ~Trigger4(q)
  /\ ~Trigger5(q)
  /\ ~Trigger6(q)

\* C4: route always returns one action of the closed set, and a query with
\* no trigger keyword and no dotted token gets help with the fixed hints.
C4_RouteTotalAndHelp ==
  call.op = "route" =>
    /\ call.ret.action \in RouteActions
    /\ NoTrigger(call.q) =>
         call.ret = [action |-> "help",
                     hints |-> <<<<"E","x","e","m","p","l","o","s",":">>,
                                 <<"b","u","i","l","t","i","n"," ","C","o","l","o","r">>,
                                 <<"l","a","y","o","u","t"," ","d","e"," ","C","o","l","o","r">>,
                                 <<"o","f","f","s","e","t"," ","d","e"," ","C","o","l","o","r",".","a">>,
                                 <<"t","a","m","a","n","h","o"," ","d","e"," ","V","e","c","t","o","r","3">>,
                                 <<"c","l","a","s","s","e"," ","N","o","d","e">>,
                                 <<"m","é","t","o","d","o"," ","a","d","d","_","c","h","i","l","d">>,
                                 <<"N","o","d","e",".","P","r","o","c","e","s","s","M","o","d","e">>>>]

\* C4 witness: a query that names a known builtin and a known class but holds
\* no trigger has been answered with help.
C4_Witness ==
  /\ call.op = "route"
  /\ NoTrigger(call.q)
  /\ HasKnownWord(call.q, DocBuiltinNames(api))
  /\ HasKnownWord(call.q, DocClassNames(api))
  /\ call.ret.action = "help"

S_builtin_sp == <<"b","u","i","l","t","i","n"," ">>

S_layout_de_sp == <<"l","a","y","o","u","t"," ","d","e"," ">>

S_de == <<"d","e">>

\* q is prefix followed by a letter-casing of the name B
IsCasingAfter(q, prefix, B) ==
  /\ Len(q) = Len(prefix) + Len(B)
  /\ SubSeq(q, 1, Len(prefix)) = prefix
  /\ lower(SubSeq(q, Len(prefix) + 1, Len(q))) = lower(B)

\* C5 as stated: for every builtin B and every letter-casing B' of its name,
\* route('builtin ' + B') is the builtin action with the non-None result
\* get_builtin(B), and route('layout de ' + B') is the same builtin_layout
\* action, params and payload as route('layout de ' + B).
C5_RoutingIgnoresBuiltinCase ==
  call.op = "route" =>
    \A B \in DocBuiltinNames(api) :
      /\ IsCasingAfter(call.q, S_builtin_sp, B) =>
           /\ call.ret.action = "builtin"
           /\ call.ret.result # None
           /\ call.ret.result = get_builtin(ix, B)
      /\ IsCasingAfter(call.q, S_layout_de_sp, B) =>
           /\ call.ret.action = "builtin_layout"
           /\ call.ret = route(ix, S_layout_de_sp \o B)

\* s is an identifier: an ASCII letter, then ASCII letters, digits, '_'
IsIdentifier(s) ==
  /\ s # <<>>
  /\ s[1] \in AsciiLetter
  /\ \A i \in DOMAIN s : s[i] \in AsciiWord

\* s holds none of the words the router reacts to
KeywordFree(s) ==
  \A w \in {S_layout, S_tamanho, S_size, S_offset, S_hash, S_builtin,
            S_class, S_method, S_metodo, S_metodo_acento} :
    ~Contains(lower(s), w)

\* every builtin name of the document is a keyword-free identifier other
\* than the filler word 'de'
PlainBuiltinNames(a) ==
  \A nm \in DocBuiltinNames(a) :
    IsIdentifier(nm) /\ KeywordFree(nm) /\ lower(nm) # S_de

\* C5 amended: in a document whose builtin names are keyword-free
\* identifiers other than 'de', for every builtin B and every letter-casing
\* B' of its name: route('layout de ' + B') returns the same result as
\* route('layout de ' + B); and when no other builtin name equals B's
\* ignoring case, route('builtin ' + B') is the builtin action with the
\* non-None result get_builtin(B), and route('layout de ' + B') is the
\* builtin_layout action for B under float_32 if B has a float_32 size or
\* member offsets recorded, and help if it has neither.
C5_CaseInsensitiveForUniqueBuiltin ==
  (call.op = "route" /\ PlainBuiltinNames(api)) =>
    \A B \in DocBuiltinNames(api) :
      /\ IsCasingAfter(call.q, S_layout_de_sp, B) =>
           call.ret = route(ix, S_layout_de_sp \o B)
      /\ SameNoCase(DocBuiltinNames(api), B) = {B} =>
           /\ IsCasingAfter(call.q, S_builtin_sp, B) =>
                /\ call.ret.action = "builtin"
                /\ call.ret.result # None
                /\ call.ret.result = get_builtin(ix, B)
           /\ IsCasingAfter(call.q, S_layout_de_sp, B) =>
                IF DocHasLayout(api, S_float_32, B)
                THEN /\ call.ret.action = "builtin_layout"
                     /\ call.ret.params = [class |-> B, config |-> S_float_32]
                     /\ call.ret.result.size = DocSize(api, S_float_32, B)
                ELSE call.ret.action = "help"

\* C5 witness: a layout query that writes a builtin's name in another letter
\* case has been answered with that builtin's layout.
C5_Witness ==
  /\ call.op = "route"
  /\ PlainBuiltinNames(api)
  /\ \E B \in DocBuiltinNames(api) :
       /\ IsCasingAfter(call.q, S_layout_de_sp, B)
       /\ call.q # S_layout_de_sp \o B
       /\ SameNoCase(DocBuiltinNames(api), B) = {B}
       /\ call.ret.action = "builtin_layout"
       /\ call.ret.params.class = B

\* the hash slots of a method record as strings: the primary hash, then the
\* compatibility hashes (a list or a single scalar)
HashSlots(m) ==
  (IF "hash" \in DOMAIN m THEN {py_str(m.hash)} ELSE {})
  \cup (IF "hash_compatibility" \notin DOMAIN m THEN {}
        ELSE IF "list" \in DOMAIN m.hash_compatibility
        THEN {py_str(m.hash_compatibility.list[i]) :
                i \in DOMAIN m.hash_compatibility.list}
        ELSE {py_str(m.hash_compatibility)})

\* the records of the named methods of named classes that have hs among
\* their hash slots
DocByHash(a, hs) ==
  LET ps == DocMethodPairs(GetList(a, "classes"), 1)
  IN {_sig_dict(ps[i].cls, ps[i].m) :
        i \in {j \in DOMAIN ps : hs \in HashSlots(ps[j].m)}}

\* s is a non-empty run of decimal digits
IsDigits(s) == s # <<>> /\ \A i \in DOMAIN s : s[i] \in Digit

S_hash_colon_sp == <<"h","a","s","h",":"," ">>

\* C6: find_method_by_hash(h), h an integer or a string, returns exactly the
\* records of the named methods of named classes whose primary hash or one
\* of whose compatibility hashes has the string form of h; and
\* route('hash: ' + h) returns that list under action method_by_hash.
C6_HashLookupExact ==
  /\ call.op = "find_method_by_hash" =>
       Range(call.ret) = DocByHash(api, py_str(call.h))
  /\ (/\ call.op = "route"
      /\ StartsWith(call.q, S_hash_colon_sp)
      /\ IsDigits(SubSeq(call.q, Len(S_hash_colon_sp) + 1, Len(call.q)))) =>
       LET h == SubSeq(call.q, Len(S_hash_colon_sp) + 1, Len(call.q))
       IN /\ call.ret.action = "method_by_hash"
          /\ call.ret.params = [hash |-> h]
          /\ Range(call.ret.result) = DocByHash(api, h)
          /\ call.ret.result = find_method_by_hash(ix, [str |-> h])

\* C6 witness: a lookup by a compatibility hash that is not the method's
\* primary hash has returned that method.
C6_Witness ==
  /\ call.op = "find_method_by_hash"
  /\ call.ret # <<>>
  /\ LET ps == DocMethodPairs(GetList(api, "classes"), 1)
     IN \E i \in DOMAIN ps :
          /\ py_str(call.h) \in HashSlots(ps[i].m)
          /\ "hash" \in DOMAIN ps[i].m
          /\ py_str(ps[i].m.hash) # py_str(call.h)
          /\ _sig_dict(ps[i].cls, ps[i].m) \in Range(call.ret)

\* the records of the methods named M, in document order, of the classes
\* in Cs
DocByName(a, M, Cs) ==
  LET ps == DocMethodPairs(GetList(a, "classes"), 1)
      Mine(e) == e.m.name = M /\ e.cls \in Cs
      kept == SelectSeq(ps, Mine)
  IN [i \in DOMAIN kept |-> _sig_dict(kept[i].cls, kept[i].m)]

\* C7 as stated, read with exact match first: find_methods(M) lists the
\* (C, M) entries of the document in registration order; find_methods(M,
\* cls=C') returns exactly the entries owned by C when C' is C's name as
\* registered, or is a letter-casing of it that is no class's own name and
\* C is the one class it matches.
C7_FilterReturnsOwnedByClass ==
  call.op = "find_methods" =>
    /\ call.cls = None =>
         call.ret = DocByName(api, call.name, DocClassNames(api))
    /\ call.cls # None =>
         \A C \in DocClassNames(api) :
           (\/ call.cls[1] = C
            \/ /\ call.cls[1] \notin DocClassNames(api)
               /\ SameNoCase(DocClassNames(api), call.cls[1]) = {C})
             => call.ret = DocByName(api, call.name, {C})

\* the value names, in order, of the enum E nested in the class named C;
\* None when C has no enum named E
DocClassEnum(a, C, E) ==
  LET cs == GetList(a, "classes")
      ci == {i \in DOMAIN cs : Get(cs[i], "name") = Some(C)}
      es == IF ci = {} THEN <<>> ELSE GetList(cs[Min(ci)], "enums")
      ei == {j \in DOMAIN es : Get(es[j], "name") = Some(E)}
  IN IF ei = {} THEN None
     ELSE LET vs == GetList(es[CHOOSE j \in ei : \A k \in ei : k <= j], "values")
          IN Some([i \in DOMAIN vs |-> Get(vs[i], "name")])

\* C8 as stated, read with exact match first: for a class C with a nested
\* enum E, get_class_enum(C' + '.' + E) returns name 'C.E' and E's value
\* names, in order, when C' is C's name as registered or a letter-casing of
\* it that is no class's own name.
C8_ClassEnumAnyCasing ==
  call.op = "get_class_enum" =>
    \A C \in DocClassNames(api), E \in EnumNameInputs :
      (/\ DocClassEnum(api, C, E) # None
       /\ \E Cq \in ClassNameInputs :
            /\ call.qualified = Cq \o <<".">> \o E
            /\ lower(Cq) = lower(C)
            /\ (Cq = C \/ Cq \notin DocClassNames(api)))
        => /\ call.ret # None
           /\ call.ret[1].name = C \o <<".">> \o E
           /\ call.ret[1].values = DocClassEnum(api, C, E)[1]

\* C9 as stated: get_builtin_layout(name, config) is None only if the
\* document records neither a size nor a member offset for (config, name);
\* and when a size is recorded, 0 included, the result is not None and
\* carries that size and the recorded offset list.
C9_LayoutNoneOnlyIfNothingRecorded ==
  call.op = "get_builtin_layout" =>
    /\ call.ret = None => ~DocHasLayout(api, call.config, call.name)
    /\ DocSize(api, call.config, call.name) # None =>
         /\ call.ret # None
         /\ call.ret[1].size = DocSize(api, call.config, call.name)
         /\ call.ret[1].members =
              (IF DocMembers(api, call.config, call.name) = None THEN <<>>
               ELSE DocMembers(api, call.config, call.name)[1])

\* C10: for a builtin B with a layout under K, get_builtin_member_offset(B,
\* m, K) is the offset recorded for m in B's K offset list, 0 returned as
\* 0, and None when the list has no entry named m.
C10_MemberOffsetOrNone ==
  (/\ call.op = "get_builtin_member_offset"
   /\ call.name \in DocBuiltinNames(api)
   /\ DocHasLayout(api, call.config, call.name)) =>
    call.ret = DocOffset(api, call.config, call.name, call.member)

\* C10 witness: a member recorded at offset 0 has been looked up and 0 was
\* returned.
C10_Witness ==
  /\ call.op = "get_builtin_member_offset"
  /\ call.name \in DocBuiltinNames(api)
  /\ DocOffset(api, call.config, call.name, call.member) = Some(0)
  /\ call.ret = Some(0)

(***************************************************************************)
(* Requests to the transport: one request at a time against the served    *)
(* ExtApi, under each configuration.                                       *)
(***************************************************************************)
\* the URLs requested, as the router resolves them: the path, the route
\* handler it selects ('none' when no route matches, 'docs' for the
\* documentation pages) and the handler's path and query parameters
Targets ==
  {[path |-> "/health", route |-> "health",
    args |-> <<>>],
   [path |-> "/info", route |-> "get_info",
    args |-> <<>>],
   [path |-> "/class/Node", route |-> "get_class",
    args |-> [name |-> <<"N","o","d","e">>]],
   [path |-> "/class/Plane", route |-> "get_class",
    args |-> [name |-> <<"P","l","a","n","e">>]],
   [path |-> "/class/Node/items", route |-> "get_class_items",
    args |-> [name |-> <<"N","o","d","e">>]],
   [path |-> "/methods/by-name", route |-> "methods_by_name",
    args |-> [name |-> <<"g","e","t","_","n","a","m","e">>, cls |-> None]],
   [path |-> "/methods/by-hash", route |-> "methods_by_hash",
    args |-> [hash |-> <<"5">>]],
   [path |-> "/enum/global/Side", route |-> "enum_global",
    args |-> [name |-> <<"S","i","d","e">>]],
   [path |-> "/enum/class/Node.Mode", route |-> "enum_class",
    args |-> [qualified |-> <<"N","o","d","e",".","M","o","d","e">>]],
   [path |-> "/singletons", route |-> "singletons",
    args |-> <<>>],
   [path |-> "/utility", route |-> "utility",
    args |-> [name |-> None, category |-> None]],
   [path |-> "/builtin/names", route |-> "builtin_names",
    args |-> <<>>],
   [path |-> "/builtin/Color", route |-> "builtin_detail",
    args |-> [name |-> <<"C","o","l","o","r">>]],
   [path |-> "/native_structs", route |-> "native_structs",
    args |-> <<>>],
   [path |-> "/native_structs/Glyph", route |-> "native_struct_detail",
    args |-> [name |-> <<"G","l","y","p","h">>]],
   [path |-> "/blob/map", route |-> "blob_map",
    args |-> [max_items_per_section |-> 200]],
   [path |-> "/blob/range", route |-> "blob_range",
    args |-> [start |-> 0, end |-> 1]],
   [path |-> "/blob/range", route |-> "blob_range",
    args |-> [start |-> 1, end |-> 1]],
   [path |-> "/openapi.json", route |-> "docs",
    args |-> <<>>],
   [path |-> "/docs", route |-> "docs",
    args |-> <<>>],
   [path |-> "/redoc", route |-> "docs",
    args |-> <<>>],
   [path |-> "/nowhere", route |-> "none",
    args |-> <<>>]}
    \cup {[path |-> "/builtin/Color/layout", route |-> "builtin_layout",
    args |-> [name |-> <<"C","o","l","o","r">>, config |-> c]] :
            c \in {S_float_32, <<"b","a","n","a","n","a">>, <<>>}}
    \cup {[path |-> "/builtin/Color/offset/a", route |-> "builtin_offset",
    args |-> [name |-> <<"C","o","l","o","r">>, member |-> <<"a">>, config |-> c]] :
            c \in {S_float_32, <<"b","a","n","a","n","a">>}}

\* values of the x-api-key header: absent, empty, the key, another key
XApiKeyInputs == {None, Some(<<>>), Some(<<"s","k">>), Some(<<"n","o">>)}

\* values of the Authorization header
AuthorizationInputs ==
  {None,
   Some(<<"B","e","a","r","e","r"," ","s","k">>),
   Some(<<"b","e","a","r","e","r"," "," ","s","k">>),
   Some(<<"B","e","a","r","e","r"," ","n","o">>),
   Some(<<"B","a","s","i","c"," ","s","k">>),
   Some(<<"s","k">>)}

Requests ==
  [method : {"GET", "POST", "HEAD", "OPTIONS"}, target : Targets,
   x_api_key : XApiKeyInputs, authorization : AuthorizationInputs]

\* the server answers one request
Request(req) ==
  /\ call = Idle
  /\ call' = [op |-> "request", req |-> req, ret |-> Respond(env, ix, req)]
  /\ UNCHANGED <<api, ix, srv>>

\* the module import: configuration read, the document loaded
InitGuard ==
  \E d \in {DocTypical, DocCaseTwins}, e \in Envs :
    /\ api = d
    /\ ix = _build_indexes(d)
    /\ call = Idle
    /\ env = e
    /\ disk = [present |-> TRUE, content |-> JsonObject(d), st_mtime |-> 1]
    /\ _mtime = 1
    /\ handlers = [t \in Threads |-> IdleHandler]

NextGuard ==
  \/ \E req \in Requests : Request(req)
  \/ Return

SpecGuard == InitGuard /\ [][NextGuard]_vars

(***************************************************************************)
(* Reload on change: handler threads run state.maybe_reload() and read     *)
(* state.ext while the document file is rewritten or removed.  api and ix  *)
(* are the fields of the ExtApi that state._ext refers to.                 *)
(***************************************************************************)
\* the modification times the file takes: every write advances it
MaxMtime == 3

ReloadDocs == {DocEmpty, DocLayoutGaps}

\* the file is written with new content
WriteDocument(c) ==
  /\ disk.st_mtime < MaxMtime
  /\ disk' = [present |-> TRUE, content |-> c, st_mtime |-> disk.st_mtime + 1]
  /\ UNCHANGED <<api, ix, call, env, _mtime, handlers>>

\* the file is removed
RemoveDocument ==
  /\ disk.present
  /\ disk' = [disk EXCEPT !.present = FALSE]
  /\ UNCHANGED <<api, ix, call, env, _mtime, handlers>>

\* thread t moves to pc with the locals changed as given
Step(t, h) ==
  /\ handlers' = [handlers EXCEPT ![t] = h]
  /\ UNCHANGED <<call, env, disk>>

Raise(t, e) == [handlers[t] EXCEPT !.pc = "raised", !.err = e]

\* a request arrives and a thread runs its handler
BeginRequest(t) ==
  /\ handlers[t].pc = "idle"
  /\ Step(t, [IdleHandler EXCEPT !.pc = "maybe_reload"])
  /\ UNCHANGED <<api, ix, _mtime>>

\* maybe_reload: m = self.p.stat().st_mtime
MaybeReloadStat(t) ==
  /\ handlers[t].pc = "maybe_reload"
  /\ Step(t, IF disk.present
             THEN [handlers[t] EXCEPT !.pc = "compare", !.m = disk.st_mtime]
             ELSE Raise(t, "FileNotFoundError"))
  /\ UNCHANGED <<api, ix, _mtime>>

\* maybe_reload: if m > self._mtime: self._load()
MaybeReloadCompare(t) ==
  /\ handlers[t].pc = "compare"
  /\ Step(t, [handlers[t] EXCEPT
                !.pc = IF handlers[t].m > _mtime THEN "_load" ELSE "ext",
                !.m = 0])
  /\ UNCHANGED <<api, ix, _mtime>>

\* _load: if not self.p.exists(): raise FileNotFoundError
LoadExists(t) ==
  /\ handlers[t].pc = "_load"
  /\ Step(t, IF disk.present
             THEN [handlers[t] EXCEPT !.pc = "ExtApi"]
             ELSE Raise(t, "FileNotFoundError"))
  /\ UNCHANGED <<api, ix, _mtime>>

\* ExtApi(self.p): the file is read and decoded, the indexes are built from
\* the decoded document; a JSON array has no .get
ExtApiInit(t) ==
  /\ handlers[t].pc = "ExtApi"
  /\ Step(t, IF ~disk.present THEN Raise(t, "FileNotFoundError")
             ELSE IF disk.content.kind = "garbage"
             THEN Raise(t, "JSONDecodeError")
             ELSE IF disk.content.kind = "array"
             THEN Raise(t, "AttributeError")
             ELSE [handlers[t] EXCEPT
                     !.pc = "assign_ext",
                     !.obj = Some([api |-> disk.content.value,
                                   ix |-> _build_indexes(disk.content.value)]),
                     !.version = disk.st_mtime])
  /\ UNCHANGED <<api, ix, _mtime>>

\* the fields of the object state._ext refers to, in place of those of
\* the new object
AssignExt_InPlace(a, x, obj) == [api |-> obj.api, ix |-> x]

\* self._ext = <the new ExtApi>: the ExtApi that state._ext refers to after
\* the assignment
AssignExt(a, x, obj) == obj

\* _load: self._ext = ExtApi(self.p)
LoadAssignExt(t) ==
  /\ handlers[t].pc = "assign_ext"
  /\ api' = AssignExt(api, ix, handlers[t].obj[1]).api
  /\ ix' = AssignExt(api, ix, handlers[t].obj[1]).ix
  /\ Step(t, [handlers[t] EXCEPT !.pc = "stat", !.obj = None])
  /\ UNCHANGED _mtime

\* _load: the value of self.p.stat().st_mtime
LoadStat(t) ==
  /\ handlers[t].pc = "stat"
  /\ Step(t, IF disk.present
             THEN [handlers[t] EXCEPT !.pc = "assign_mtime", !.m = disk.st_mtime]
             ELSE Raise(t, "FileNotFoundError"))
  /\ UNCHANGED <<api, ix, _mtime>>

\* _load: self._mtime = <that value>
LoadAssignMtime(t) ==
  /\ handlers[t].pc = "assign_mtime"
  /\ _mtime' = handlers[t].m
  /\ Step(t, [handlers[t] EXCEPT !.pc = "ext", !.m = 0, !.version = 0])
  /\ UNCHANGED <<api, ix>>

\* the handler reads state.ext (state._ext is never None once the import
\* has succeeded)
ReadExt(t) ==
  /\ handlers[t].pc = "ext"
  /\ Step(t, [handlers[t] EXCEPT !.pc = "respond",
                                 !.got = Some([api |-> api, ix |-> ix])])
  /\ UNCHANGED <<api, ix, _mtime>>

\* the handler answers from the ExtApi it obtained, or the exception is
\* answered with an error; the thread is free again
EndRequest(t) ==
  /\ handlers[t].pc \in {"respond", "raised"}
  /\ Step(t, IdleHandler)
  /\ UNCHANGED <<api, ix, _mtime>>

\* the import has succeeded: state = _ApiState(EXTAPI_JSON)
InitReload ==
  \E d \in ReloadDocs :
    /\ api = d
    /\ ix = _build_indexes(d)
    /\ call = Idle
    /\ env = DefaultEnv
    /\ disk = [present |-> TRUE, content |-> JsonObject(d), st_mtime |-> 1]
    /\ _mtime = 1
    /\ handlers = [t \in Threads |-> IdleHandler]

NextReload ==
  \/ \E c \in {JsonObject(d) : d \in ReloadDocs} \cup {JsonArray, NotJson} :
       WriteDocument(c)
  \/ RemoveDocument
  \/ \E t \in Threads : BeginRequest(t)
  \/ \E t \in Threads : MaybeReloadStat(t)
  \/ \E t \in Threads : MaybeReloadCompare(t)
  \/ \E t \in Threads : LoadExists(t)
  \/ \E t \in Threads : ExtApiInit(t)
  \/ \E t \in Threads : LoadAssignExt(t)
  \/ \E t \in Threads : LoadStat(t)
  \/ \E t \in Threads : LoadAssignMtime(t)
  \/ \E t \in Threads : ReadExt(t)
  \/ \E t \in Threads : EndRequest(t)

SpecReload == InitReload /\ [][NextReload]_vars

(***************************************************************************)
(* Name resolution of the accessors                                        *)
(***************************************************************************)
\* the names of the document's global enums, utility functions, constants
DocNamesOf(a, coll) ==
  LET rs == GetList(a, coll)
  IN {rs[i].name : i \in {j \in DOMAIN rs : TruthyStr(Get(rs[j], "name"))}}

\* the record of the collection registered under the name K
DocRecord(a, coll, K) ==
  LET rs == GetList(a, coll)
      I == {i \in DOMAIN rs : Get(rs[i], "name") = Some(K)}
  IN rs[CHOOSE i \in I : \A j \in I : j <= i]

\* the keys a name may resolve to: the name itself when it is a key, else
\* the keys that differ from it only in letter case
ResolvesTo(names, nm) == IF nm \in names THEN {nm} ELSE SameNoCase(names, nm)

ExactFirstClass ==
  LET R == ResolvesTo(DocClassNames(api), call.name)
  IN /\ (call.op = "get_class" /\ R # {}) =>
          /\ call.ret # None
          /\ \E K \in R : call.ret[1] = DocRecord(api, "classes", K)
     /\ (call.op = "list_class_items" /\ R # {}) =>
          /\ call.ret # None
          /\ \E K \in R : call.ret[1].name = Some(K)

ExactFirstMethodFilter ==
  (call.op = "find_methods" /\ TruthyStr(call.cls)) =>
    LET R == ResolvesTo(DocClassNames(api), call.cls[1])
    IN R # {} => \E K \in R : call.ret = DocByName(api, call.name, {K})

ExactFirstGlobalEnum ==
  call.op = "get_global_enum" =>
    LET R == ResolvesTo(DocNamesOf(api, "global_enums"), call.name)
    IN R # {} =>
         /\ call.ret # None
         /\ \E K \in R :
              /\ call.ret[1].name = K
              /\ call.ret[1].values =
                   ValueNames(DocRecord(api, "global_enums", K))

\* the qualified keys 'C.E' the document gives rise to, for the enum part E
DocQualifiedKeys(a, E) ==
  {C \o <<".">> \o E : C \in {D \in DocClassNames(a) : DocClassEnum(a, D, E) # None}}

ExactFirstClassEnum ==
  (call.op = "get_class_enum" /\ Len(Split(call.qualified, ".")) = 2) =>
    LET E == Split(call.qualified, ".")[2]
        R == ResolvesTo(DocQualifiedKeys(api, E), call.qualified)
    IN R # {} =>
         /\ call.ret # None
         /\ call.ret[1].name \in R
         /\ \E C \in DocClassNames(api) :
              /\ call.ret[1].name = C \o <<".">> \o E
              /\ call.ret[1].values = DocClassEnum(api, C, E)[1]

ExactFirstUtility ==
  (call.op = "find_utility" /\ TruthyStr(call.name)) =>
    LET R == ResolvesTo(DocNamesOf(api, "utility_functions"), call.name[1])
    IN R # {} =>
         \E K \in R :
           call.ret = UtilityDetail(K, DocRecord(api, "utility_functions", K))

ExactFirstBuiltin ==
  call.op = "get_builtin" =>
    LET R == ResolvesTo(DocBuiltinNames(api), call.name)
    IN R # {} => (call.ret # None /\ \E K \in R : call.ret[1].name = Some(K))

ExactFirstBuiltinLayout ==
  call.op = "get_builtin_layout" =>
    LET R == ResolvesTo({B \in DocBuiltinNames(api) :
                           DocHasLayout(api, call.config, B)}, call.name)
    IN R # {} => (call.ret # None /\ call.ret[1].class \in R)

ExactFirstGlobalConstant ==
  call.op = "get_global_constant" =>
    LET R == ResolvesTo(DocNamesOf(api, "global_constants"), call.name)
    IN R # {} =>
         /\ call.ret # None
         /\ \E K \in R : call.ret[1] = DocRecord(api, "global_constants", K)

\* C11 as stated: every accessor that takes a name (for find_methods the
\* class filter, for get_class_enum the qualified name with the class part
\* in any casing) returns the record registered under that name when the
\* name is a key, and otherwise the record of a key that differs from the
\* name only in letter case, when there is one.
C11_ExactThenCaseInsensitive ==
  /\ ExactFirstClass
  /\ ExactFirstMethodFilter
  /\ ExactFirstGlobalEnum
  /\ ExactFirstClassEnum
  /\ ExactFirstUtility
  /\ ExactFirstBuiltin
  /\ ExactFirstBuiltinLayout
  /\ ExactFirstGlobalConstant

(***************************************************************************)
(* The API key guard                                                       *)
(***************************************************************************)
\* the request carries the key in the x-api-key header
CarriesHeaderKey(e, req) == req.x_api_key = Some(e.API_KEY)

\* the request carries the key as a Bearer token of the Authorization header
CarriesBearerKey(e, req) ==
  /\ req.authorization # None
  /\ Len(req.authorization[1]) > 7
  /\ lower(SubSeq(req.authorization[1], 1, 7)) = <<"b","e","a","r","e","r"," ">>
  /\ strip(SubSeq(req.authorization[1], 8, Len(req.authorization[1])))
       = e.API_KEY

\* a request the guard is to check: a key is configured, the method is not
\* OPTIONS or HEAD, the path is not open
Guarded(e, req) ==
  /\ e.API_KEY # <<>>
  /\ req.method \notin {"OPTIONS", "HEAD"}
  /\ req.target.path \notin OPEN_PATHS(e)

\* a guarded request without the key is answered 401, before the handler
\* and its parameter validation
KeylessIs401 ==
  (/\ call.op = "request"
   /\ Guarded(env, call.req)
   /\ ~CarriesHeaderKey(env, call.req)
   /\ ~CarriesBearerKey(env, call.req))
    => (call.ret.status = 401 /\ ~call.ret.passed)

\* a guarded request with the key and an invalid config is answered 400
KeyedInvalidConfigIs400 ==
  (/\ call.op = "request"
   /\ Guarded(env, call.req)
   /\ call.ret.passed
   /\ call.req.method = "GET"
   /\ call.req.target.route \in {"builtin_layout", "builtin_offset"}
   /\ call.req.target.args.config \notin VALID_CONFIGS \cup {<<>>})
    => call.ret.status = 400

\* a guarded request with the key reaches its route
KeyedReachesRoute ==
  (/\ call.op = "request"
   /\ Guarded(env, call.req)
   /\ (CarriesHeaderKey(env, call.req) \/ CarriesBearerKey(env, call.req)))
    => (call.ret.passed /\ call.ret.status # 401)

\* C16 as stated: with an API key configured, a request that is not OPTIONS
\* or HEAD and not to an open path is answered 401 unless it carries the key
\* in x-api-key or as a Bearer token, before any parameter validation (with
\* the key an invalid config is answered 400), and a request that carries
\* the key always reaches its route.
C16_GuardChecksKey ==
  /\ KeylessIs401
  /\ KeyedInvalidConfigIs400
  /\ KeyedReachesRoute

(***************************************************************************)
(* The documentation pages and the core operations of the routes           *)
(***************************************************************************)
\* C17 as stated: with an API key configured and OPEN_DOCS enabled, a GET
\* to /openapi.json, /docs or /redoc that carries no API key is served
\* (200 or 307) and is not answered 401.
C17_OpenDocsServedWithoutKey ==
  (/\ call.op = "request"
   /\ env.API_KEY # <<>>
   /\ env.OPEN_DOCS
   /\ call.req.method = "GET"
   /\ call.req.target.path \in {"/openapi.json", "/docs", "/redoc"}
   /\ call.req.x_api_key = None
   /\ call.req.authorization = None)
    => call.ret.status \in {200, 307}

\* C19 as stated: every operation a route handler calls on state.ext is an
\* operation ExtApi defines, so a GET that passed the guard and reached a
\* route handler is not answered 500 for want of the operation.
C19_RoutesUseDefinedOperations ==
  (/\ call.op = "request"
   /\ call.ret.passed
   /\ call.req.method = "GET"
   /\ call.req.target.route \in DOMAIN CoreOperation)
    => (/\ CoreOperation[call.req.target.route] \in ExtApiOperations
        /\ call.ret.status # 500)

(***************************************************************************)
(* Reload: snapshots, failures, serialization, modification times          *)
(***************************************************************************)
\* a is a document and x the indexes built from it
BuiltFromOne(a, x) == a \in ReloadDocs /\ x = _build_indexes(a)

\* every ExtApi a reader holds, and the one state._ext refers to, has its
\* document and all its indexes from one document version
OneVersionEach ==
  /\ BuiltFromOne(api, ix)
  /\ \A t \in Threads :
       handlers[t].got # None =>
         BuiltFromOne(handlers[t].got[1].api, handlers[t].got[1].ix)

\* the served ExtApi changes only by a thread of _load handing over the
\* ExtApi it has completely constructed
SwapOnly ==
  (api' # api \/ ix' # ix) =>
    \E t \in Threads :
      /\ handlers[t].pc = "assign_ext"
      /\ handlers[t].obj = Some([api |-> api', ix |-> ix'])
      /\ BuiltFromOne(api', ix')

\* C13 as stated: under any interleaving of handlers, reloads and writes, a
\* reader that obtains state.ext holds an ExtApi whose document and indexes
\* all come from one document version; the handle is replaced only by a
\* completely constructed ExtApi, and the fields of a published ExtApi are
\* never assigned.
C13_ReadersSeeOneVersion == []OneVersionEach /\ [][SwapOnly]_vars

\* a reader holds the old ExtApi while another thread has just replaced the
\* handle with one built from another document
C13_Witness ==
  \E t, u \in Threads :
    /\ handlers[t].pc = "respond"
    /\ handlers[u].pc = "stat"
    /\ handlers[t].got[1].api # api

\* the threads inside _load
Loading == {t \in Threads : handlers[t].pc \in {"_load", "ExtApi", "assign_ext", "stat", "assign_mtime"}}

\* C15 as stated: under any interleaving of handlers calling maybe_reload
\* after the document's modification time has advanced, at most one _load
\* is in progress at any time.
C15_AtMostOneLoad == Cardinality(Loading) <= 1

\* the load of handler h has read a document and handed its ExtApi over to
\* state._ext
HasReplacedHandle(h) == h.version # 0 /\ h.obj = None

\* C14 as stated: a load that fails because the document is missing or is
\* not decodable into a record-shaped schema raises to the caller and has
\* replaced neither the served ExtApi nor the recorded modification time.
C14_FailedLoadKeepsState ==
  \A t \in Threads :
    handlers[t].pc = "raised" =>
      /\ handlers[t].err \in {"FileNotFoundError", "JSONDecodeError",
                              "AttributeError"}
      /\ ~HasReplacedHandle(handlers[t])

\* a completed _load records the modification time of the version it read
RecordsLoadedVersion ==
  \A t \in Threads :
    (handlers[t].pc = "assign_mtime" /\ handlers'[t].pc = "ext") =>
      _mtime' = handlers[t].version

\* with no request in progress, a recorded modification time that is not
\* older than the file's means the served document is the file's
CurrentWhenRecordedCurrent ==
  (/\ \A t \in Threads : handlers[t].pc = "idle"
   /\ disk.present
   /\ disk.content.kind = "object"
   /\ _mtime >= disk.st_mtime)
    => api = disk.content.value

\* C18 as stated: after every completed _load the recorded modification
\* time is that of the document version whose content was loaded, under any
\* interleaving of writes with the load; so the served snapshot is never
\* left older than the file with nothing to make a later maybe_reload
\* rebuild it.
C18_MtimeOfLoadedVersion ==
  [][RecordsLoadedVersion]_vars /\ []CurrentWhenRecordedCurrent

====
